---- MODULE Spec2Model ----
(***************************************************************************)
(* Model of the A2A token-flow driver (demo_token_flow.py): the PKCE       *)
(* generator, the three-step actor-token flow (authorize -> authn ->       *)
(* token), the RFC 8693 token exchange and the driver main() that runs     *)
(* them for the orchestrator and then for every configured worker.         *)
(*                                                                         *)
(* The identity provider is the environment: every response it can give    *)
(* (transport failure or timeout, a body that is not a JSON object, or a   *)
(* JSON object with any combination of the fields the code reads) is a     *)
(* nondeterministic choice of the step that receives it.  A property that  *)
(* is stated against a provider of a given kind is checked with a stub of  *)
(* that provider, which keeps the provider's table of authenticated        *)
(* sessions or of redeemed authorization codes and answers accordingly.    *)
(*                                                                         *)
(* Python strings are TLA+ strings.  Two kinds of text are kept as         *)
(* sequences so that the code's conversions can be computed: a base64      *)
(* text is the sequence of its characters, and a space-joined scope string *)
(* is the sequence of its pieces (scope names and " " separators); the     *)
(* empty text is <<>> in both.  An access token is a string; TokenText     *)
(* gives its characters where decode_jwt_payload splits and decodes it.    *)
(***************************************************************************)
EXTENDS Integers, Sequences, FiniteSets, TLC

-----------------------------------------------------------------------------
(* State *)

VARIABLES
    AGENTS,                   \* the worker configuration, key -> entry
    pc,                       \* where main() is
    agent_key,                \* the loop variable of main (0 before the loop)
    orchestrator_actor_token, \* main's local, bound by phase 1
    agent_actor_token,        \* main's local, as bound in the current iteration
    exchanged_token,          \* main's local, as bound in the current iteration
    flow,                     \* the frame of the running get_actor_token_3step
    response,                 \* the response received last
    requests,                 \* the requests sent by the latest flow invocation or exchange
    stdout,                   \* the status lines printed so far
    n_clients,                \* httpx.AsyncClient objects created so far
    n_pkce,                   \* calls of generate_pkce so far
    provider                  \* the identity provider's stub and its tables

vars == << AGENTS, pc, agent_key, orchestrator_actor_token, agent_actor_token,
           exchanged_token, flow, response, requests, stdout, n_clients, n_pkce,
           provider >>

-----------------------------------------------------------------------------
(* Values *)

\* Number of worker entries in AGENTS (the source configures four).
NumWorkers == 2

\* Python None, also the value of dict.get for a missing key.
None == "None"

\* Python truthiness of an optional string: `if x` / `not x` / `x or y`.
Truthy(x) == x \notin {None, ""}

-----------------------------------------------------------------------------
(* Configuration *)

AUTHORIZE_URL == "https://localhost:9443/oauth2/authorize"
AUTHN_URL == "https://localhost:9443/oauth2/authn"
TOKEN_URL == "https://localhost:9443/oauth2/token"
CALLBACK_URL == "http://localhost:8000/callback"

TOKEN_EXCHANGER_CLIENT_ID == "token_exchanger_client_id"
TOKEN_EXCHANGER_CLIENT_SECRET == "token_exchanger_client_secret"
ORCHESTRATOR_CLIENT_ID == "orchestrator_client_id"
ORCHESTRATOR_CLIENT_SECRET == "orchestrator_client_secret"
ORCHESTRATOR_AGENT_ID == "orchestrator_agent_id"
ORCHESTRATOR_AGENT_SECRET == "orchestrator_agent_secret"

\* The keys of AGENTS in insertion order; the driver visits them in this order.
AgentKeys == 1..NumWorkers

WorkerIds == <<"hr_agent_id", "it_agent_id", "approval_agent_id", "booking_agent_id">>
WorkerSecrets ==
    <<"hr_agent_secret", "it_agent_secret", "approval_agent_secret", "booking_agent_secret">>

\* The scope lists a worker entry may be configured with: one in sorted
\* order, one not.
SortedScopeList == << "hr:read", "hr:write" >>

UnsortedScopeList == << "it:write", "it:read" >>

ScopeLists == { SortedScopeList, UnsortedScopeList }

\* One entry of AGENTS.  os.getenv gives None for a variable that is not set:
\* an entry has both credentials, or lacks its agent_id, or lacks its
\* agent_secret.
AgentCfgs(k) ==
    { [agent_id |-> WorkerIds[k], agent_secret |-> WorkerSecrets[k], scopes |-> sc] :
        sc \in ScopeLists }
    \cup
    { [agent_id |-> None, agent_secret |-> WorkerSecrets[k], scopes |-> SortedScopeList],
      [agent_id |-> WorkerIds[k], agent_secret |-> None, scopes |-> UnsortedScopeList] }

-----------------------------------------------------------------------------
(* PKCE *)

\* Values secrets.token_urlsafe(64) can return.
Verifiers ==
    { "D3erjMounT1fOVzToKr2wkGHvw5sDPOHbFHwMwMikb-r-v0KDUIYc1MG0C6swXlNk1mTIfwMBa7CxP8i6YP3Fg",
      "riVjagQBM04q2LP9XLNal-wrbZwnjZSpcNV-qUCP0L5LrpPYkLQJl2bkRY2QwuRyeAj2TyTaiq03qWNoUNO3nA" }

\* Values secrets.token_urlsafe(32) can return (test_agent_app.py, line 10).
ProbeVerifiers ==
    { "Zq3XvB7mT1kP9sLw2eRfYh4uNa6cJd8gOi0xKbVnMzQ",
      "h_5tGy-2WsXcErD7vFbTgNhYu8JmKi9oLp0QaZ1xSwE" }

\* hashlib.sha256(verifier.encode('ascii')).digest(): the 32 bytes of the
\* digest of each verifier above.
sha256_digest(v) ==
    IF v = "Zq3XvB7mT1kP9sLw2eRfYh4uNa6cJd8gOi0xKbVnMzQ"
    THEN << 227, 86, 123, 245, 33, 34, 158, 228, 84, 60, 143, 137, 167, 88, 117, 175,
            230, 218, 100, 12, 108, 95, 195, 110, 216, 73, 10, 109, 44, 137, 81, 19 >>
    ELSE IF v = "h_5tGy-2WsXcErD7vFbTgNhYu8JmKi9oLp0QaZ1xSwE"
    THEN << 225, 155, 47, 164, 227, 52, 134, 59, 73, 141, 7, 172, 245, 157, 58, 37,
            180, 244, 232, 175, 133, 216, 243, 195, 42, 34, 45, 166, 123, 168, 145, 131 >>
    ELSE IF v = "D3erjMounT1fOVzToKr2wkGHvw5sDPOHbFHwMwMikb-r-v0KDUIYc1MG0C6swXlNk1mTIfwMBa7CxP8i6YP3Fg"
    THEN << 87, 7, 197, 204, 83, 227, 11, 12, 119, 148, 211, 16, 152, 135, 197, 79,
            49, 88, 57, 105, 55, 30, 48, 77, 66, 188, 193, 58, 180, 199, 245, 155 >>
    ELSE << 194, 88, 152, 23, 225, 252, 152, 151, 94, 184, 31, 251, 210, 125, 252, 203,
            240, 142, 178, 205, 249, 14, 53, 10, 110, 217, 40, 5, 89, 207, 42, 45 >>

\* The URL-safe base64 alphabet: value i is written UrlSafeAlphabet[i + 1].
UrlSafeAlphabet ==
    << "A", "B", "C", "D", "E", "F", "G", "H", "I", "J", "K", "L", "M",
       "N", "O", "P", "Q", "R", "S", "T", "U", "V", "W", "X", "Y", "Z",
       "a", "b", "c", "d", "e", "f", "g", "h", "i", "j", "k", "l", "m",
       "n", "o", "p", "q", "r", "s", "t", "u", "v", "w", "x", "y", "z",
       "0", "1", "2", "3", "4", "5", "6", "7", "8", "9", "-", "_" >>

\* The standard alphabet differs in the last two characters.
StandardAlphabet == [i \in 1..64 |->
    IF i = 63 THEN "+" ELSE IF i = 64 THEN "/" ELSE UrlSafeAlphabet[i]]

RECURSIVE b64encode(_, _)
\* base64 of a byte sequence over the given alphabet, with "=" padding.
b64encode(alphabet, bytes) ==
    IF Len(bytes) = 0 THEN <<>>
    ELSE IF Len(bytes) = 1 THEN
        << alphabet[(bytes[1] \div 4) + 1],
           alphabet[((bytes[1] % 4) * 16) + 1], "=", "=" >>
    ELSE IF Len(bytes) = 2 THEN
        << alphabet[(bytes[1] \div 4) + 1],
           alphabet[((bytes[1] % 4) * 16 + (bytes[2] \div 16)) + 1],
           alphabet[((bytes[2] % 16) * 4) + 1], "=" >>
    ELSE
        << alphabet[(bytes[1] \div 4) + 1],
           alphabet[((bytes[1] % 4) * 16 + (bytes[2] \div 16)) + 1],
           alphabet[((bytes[2] % 16) * 4 + (bytes[3] \div 64)) + 1],
           alphabet[(bytes[3] % 64) + 1] >>
        \o b64encode(alphabet, SubSeq(bytes, 4, Len(bytes)))

\* Variant: base64.b64encode, the standard alphabet.
urlsafe_b64encode_standard(bytes) == b64encode(StandardAlphabet, bytes)

urlsafe_b64encode(bytes) == b64encode(UrlSafeAlphabet, bytes)

RECURSIVE rstrip_pad(_)
\* bytes.rstrip(b'='): every trailing "=" removed.
rstrip_pad(chars) ==
    IF Len(chars) > 0 /\ chars[Len(chars)] = "="
    THEN rstrip_pad(SubSeq(chars, 1, Len(chars) - 1))
    ELSE chars

\* The challenge generate_pkce derives from a verifier (lines 87-88).
code_challenge_of(verifier) == rstrip_pad(urlsafe_b64encode(sha256_digest(verifier)))

\* generate_pkce for each value the random source can give.
PkceTable == [v \in Verifiers |-> code_challenge_of(v)]

generate_pkce(verifier) == [code_verifier |-> verifier, code_challenge |-> PkceTable[verifier]]

-----------------------------------------------------------------------------
(* Scope strings *)

RECURSIVE join_space(_)
\* " ".join(scopes)
join_space(scopes) ==
    IF Len(scopes) = 0 THEN <<>>
    ELSE IF Len(scopes) = 1 THEN << scopes[1] >>
    ELSE << scopes[1], " " >> \o join_space(Tail(scopes))

-----------------------------------------------------------------------------
(* HTTP requests *)

\* A field the request does not have.
Absent == "<absent>"

\* A local variable that is not bound.
Unbound == "<unbound>"

BlankRequest ==
    [ kind |-> Absent, url |-> Absent, client |-> 0, basic_auth |-> <<>>,
      grant_type |-> Absent, client_id |-> Absent, client_secret |-> Absent,
      redirect_uri |-> Absent, scope |-> <<>>, code_challenge |-> <<>>,
      flowId |-> Absent, username |-> Absent, password |-> Absent,
      code |-> Absent, code_verifier |-> Absent,
      subject_token |-> Absent, actor_token |-> Absent ]

\* POST /oauth2/authorize as step1_get_flow_id builds it.
step1_request(client, client_id, client_secret, scopes, challenge) ==
    [ BlankRequest EXCEPT
        !.kind = "authorize", !.url = AUTHORIZE_URL, !.client = client,
        !.basic_auth = << client_id, client_secret >>,
        !.client_id = client_id, !.redirect_uri = CALLBACK_URL,
        !.scope = join_space(scopes), !.code_challenge = challenge ]

\* Variant: the authn request is authenticated with the application's
\* credentials as the authorize request is.
step2_request_with_client_auth(client, flowId, agent_id, agent_secret) ==
    [ BlankRequest EXCEPT
        !.kind = "authn", !.url = AUTHN_URL, !.client = client,
        !.basic_auth = << flow.app_client_id, flow.app_client_secret >>,
        !.flowId = flowId, !.username = agent_id, !.password = agent_secret ]

\* Variant: the authn body also carries the PKCE verifier of the flow.
step2_request_sends_verifier(client, flowId, agent_id, agent_secret) ==
    [ BlankRequest EXCEPT
        !.kind = "authn", !.url = AUTHN_URL, !.client = client,
        !.flowId = flowId, !.username = agent_id, !.password = agent_secret,
        !.code_verifier = flow.code_verifier ]

\* POST /oauth2/authn as step2_authenticate_agent builds it.
step2_request(client, flowId, agent_id, agent_secret) ==
    [ BlankRequest EXCEPT
        !.kind = "authn", !.url = AUTHN_URL, !.client = client,
        !.flowId = flowId, !.username = agent_id, !.password = agent_secret ]

\* Variant: the flowId is posted as the code.
step3_request_posts_flow_id(client, client_id, client_secret, c, verifier) ==
    [ BlankRequest EXCEPT
        !.kind = "token", !.url = TOKEN_URL, !.client = client,
        !.grant_type = "authorization_code",
        !.client_id = client_id, !.client_secret = client_secret,
        !.code = flow.flow_id, !.code_verifier = verifier, !.redirect_uri = CALLBACK_URL ]

\* Variant: the token request is authenticated as the Orchestrator application.
step3_request_as_orchestrator_app(client, client_id, client_secret, c, verifier) ==
    [ BlankRequest EXCEPT
        !.kind = "token", !.url = TOKEN_URL, !.client = client,
        !.grant_type = "authorization_code",
        !.client_id = ORCHESTRATOR_CLIENT_ID,
        !.client_secret = ORCHESTRATOR_CLIENT_SECRET,
        !.code = c, !.code_verifier = verifier, !.redirect_uri = CALLBACK_URL ]

\* POST /oauth2/token (authorization_code) as step3_exchange_code_for_token builds it.
step3_request(client, client_id, client_secret, c, verifier) ==
    [ BlankRequest EXCEPT
        !.kind = "token", !.url = TOKEN_URL, !.client = client,
        !.grant_type = "authorization_code",
        !.client_id = client_id, !.client_secret = client_secret,
        !.code = c, !.code_verifier = verifier, !.redirect_uri = CALLBACK_URL ]

\* Variant: the subject token is sent as the actor token too.
exchange_request_actor_is_subject(client, subject_token, actor_token, target_scopes) ==
    [ BlankRequest EXCEPT
        !.kind = "exchange", !.url = TOKEN_URL, !.client = client,
        !.grant_type = "urn:ietf:params:oauth:grant-type:token-exchange",
        !.basic_auth = << TOKEN_EXCHANGER_CLIENT_ID, TOKEN_EXCHANGER_CLIENT_SECRET >>,
        !.subject_token = subject_token, !.actor_token = subject_token,
        !.scope = join_space(target_scopes) ]

\* Variant: subject and actor tokens are swapped.
exchange_request_swapped(client, subject_token, actor_token, target_scopes) ==
    [ BlankRequest EXCEPT
        !.kind = "exchange", !.url = TOKEN_URL, !.client = client,
        !.grant_type = "urn:ietf:params:oauth:grant-type:token-exchange",
        !.basic_auth = << TOKEN_EXCHANGER_CLIENT_ID, TOKEN_EXCHANGER_CLIENT_SECRET >>,
        !.subject_token = actor_token, !.actor_token = subject_token,
        !.scope = join_space(target_scopes) ]

\* Variant: "openid" is added to the requested scopes.
exchange_request_extra_scope(client, subject_token, actor_token, target_scopes) ==
    [ BlankRequest EXCEPT
        !.kind = "exchange", !.url = TOKEN_URL, !.client = client,
        !.grant_type = "urn:ietf:params:oauth:grant-type:token-exchange",
        !.basic_auth = << TOKEN_EXCHANGER_CLIENT_ID, TOKEN_EXCHANGER_CLIENT_SECRET >>,
        !.subject_token = subject_token, !.actor_token = actor_token,
        !.scope = join_space(<< "openid" >> \o target_scopes) ]

\* POST /oauth2/token (token-exchange) as token_exchange_downscope builds it.
exchange_request(client, subject_token, actor_token, target_scopes) ==
    [ BlankRequest EXCEPT
        !.kind = "exchange", !.url = TOKEN_URL, !.client = client,
        !.grant_type = "urn:ietf:params:oauth:grant-type:token-exchange",
        !.basic_auth = << TOKEN_EXCHANGER_CLIENT_ID, TOKEN_EXCHANGER_CLIENT_SECRET >>,
        !.subject_token = subject_token, !.actor_token = actor_token,
        !.scope = join_space(target_scopes) ]

-----------------------------------------------------------------------------
(* Responses of the identity provider *)

FlowIds == {"f1"}
TopLevelCodes == {"c1"}
AuthDataCodes == {"c2"}
\* The access tokens the provider issues: a JWT with a claims object, a
\* three-segment token whose payload is not base64, and a JWT whose payload
\* is a JSON array.
AccessTokens == {"tokA", "tokB", "tokL"}

\* Tokens the provider issues at a token exchange beside those: JWTs whose
\* scope claim is "hr:read" and "hr:read hr:write admin".
DelegatedTokens == {"tokN", "tokW"}

\* client.post raised (connection error, timeout), or the body is not a JSON object.
FailedResponses ==
    { [ type |-> t, status |-> 0, flowId |-> None, flowStatus |-> None, code |-> None,
        authData |-> "absent", authDataCode |-> None, access_token |-> None ] :
        t \in {"network_error", "not_json"} }

\* JSON bodies of /oauth2/authorize and /oauth2/authn.  authData is absent,
\* null, or an object with or without a code.
FlowResponses(flowIds, statuses) ==
    { [ type |-> "json", status |-> st, flowId |-> f, flowStatus |-> fs, code |-> c,
        authData |-> ad[1], authDataCode |-> ad[2], access_token |-> None ] :
        st \in {200, 400}, f \in flowIds, fs \in statuses,
        c \in TopLevelCodes \cup {None},
        ad \in ({<<"absent", None>>, <<"null", None>>, <<"object", None>>}
                \cup {<<"object", x>> : x \in AuthDataCodes}) }

AuthorizeResponses ==
    FailedResponses
    \cup FlowResponses(FlowIds \cup {None}, {"INCOMPLETE", "SUCCESS_COMPLETED", "FAIL_INCOMPLETE"})

AuthnResponses ==
    FailedResponses
    \cup FlowResponses({None}, {"SUCCESS_COMPLETED", "FAIL_INCOMPLETE"})

\* Responses of /oauth2/token: access_token missing, empty or a token.
TokenResponses ==
    FailedResponses
    \cup { [ type |-> "json", status |-> st, flowId |-> None, flowStatus |-> None,
             code |-> None, authData |-> "absent", authDataCode |-> None,
             access_token |-> t ] :
             st \in {200, 400}, t \in AccessTokens \cup {None, ""} }

\* Responses of /oauth2/token to a token exchange.
ExchangeResponses ==
    TokenResponses
    \cup { [ type |-> "json", status |-> 200, flowId |-> None, flowStatus |-> None,
             code |-> None, authData |-> "absent", authDataCode |-> None,
             access_token |-> t ] : t \in DelegatedTokens }

\* An authorize response that is terminal and embeds a code, at top level or
\* under authData.
TerminalWithCode(resp) ==
    /\ resp.type = "json"
    /\ resp.flowStatus = "SUCCESS_COMPLETED"
    /\ \/ Truthy(resp.code)
       \/ resp.authData = "object" /\ Truthy(resp.authDataCode)

\* A response that issues an authorization code, at top level or under
\* authData.
IssuesCode(resp) ==
    /\ resp.type = "json"
    /\ \/ Truthy(resp.code)
       \/ resp.authData = "object" /\ Truthy(resp.authDataCode)

-----------------------------------------------------------------------------
(* The identity provider *)

\* Any provider: every response is possible at every step.
AnyProvider == [stub |-> "none", sessions |-> {}, consumed |-> {}]

\* A provider that answers an authorize request with a terminal status and a
\* code only on a session (the cookie jar of a client) it has authenticated.
SessionProvider == [stub |-> "sessions", sessions |-> {}, consumed |-> {}]

\* A provider that redeems an authorization code once.
SingleUseCodeProvider == [stub |-> "single_use_codes", sessions |-> {}, consumed |-> {}]

\* The responses the provider can give to an authorize request sent on a
\* client.
AuthorizeResponsesOn(client) ==
    IF provider.stub = "sessions"
    THEN { r \in AuthorizeResponses : TerminalWithCode(r) => client \in provider.sessions }
    ELSE AuthorizeResponses

\* The provider after it answered an authn request sent on a client: a
\* response that issues a code authenticates the session.
AfterAuthn(client, resp) ==
    IF provider.stub = "sessions" /\ IssuesCode(resp)
    THEN [provider EXCEPT !.sessions = @ \cup {client}]
    ELSE provider

\* The responses the provider can give to a token request that presents an
\* authorization code: a redeemed code is answered with an error status,
\* whatever the body.
TokenResponsesFor(c) ==
    IF provider.stub = "single_use_codes" /\ c \in provider.consumed
    THEN { r \in TokenResponses : r.type = "json" /\ r.status # 200 }
    ELSE TokenResponses

\* The provider after it answered a token request: a success status redeems
\* the code.
AfterToken(c, resp) ==
    IF provider.stub = "single_use_codes" /\ resp.type = "json" /\ resp.status = 200
    THEN [provider EXCEPT !.consumed = @ \cup {c}]
    ELSE provider

\* result.get("code") or result.get("authData", {}).get("code"); "raise" when
\* authData is null and is reached.
code_of(result) ==
    IF Truthy(result.code) THEN result.code
    ELSE IF result.authData = "null" THEN "raise"
    ELSE result.authDataCode

-----------------------------------------------------------------------------
(* Tokens and the decoding of their claims *)

\* The characters of a token.
TokenText(token) ==
    CASE token = "tokA" -> << "h", ".", "e", "y", "J", "z", "d", "W", "I", "i", "O", "i",
                              "J", "h", "I", "n", "0", ".", "s" >>
      [] token = "tokB" -> << "h", ".", "a", "b", "c", "d", "e", ".", "s" >>
      [] token = "tokL" -> << "h", ".", "W", "z", "F", "d", ".", "s" >>
      [] token = "tokN" -> << "h", ".", "e", "y", "J", "z", "Y", "2", "9", "w", "Z", "S",
                              "I", "6", "I", "m", "h", "y", "O", "n", "J", "l", "Y", "W",
                              "Q", "i", "f", "Q", ".", "s" >>
      [] token = "tokW" -> << "h", ".", "e", "y", "J", "z", "Y", "2", "9", "w", "Z", "S",
                              "I", "6", "I", "m", "h", "y", "O", "n", "J", "l", "Y", "W",
                              "Q", "g", "a", "H", "I", "6", "d", "3", "J", "p", "d", "G",
                              "U", "g", "Y", "W", "R", "t", "a", "W", "4", "i", "f", "Q",
                              ".", "s" >>
      [] token = ""     -> << >>

RECURSIVE split(_, _)
\* str.split(sep): the pieces between the separators, at least one piece.
split(chars, sep) ==
    IF \A i \in DOMAIN chars : chars[i] # sep THEN << chars >>
    ELSE LET i == CHOOSE j \in DOMAIN chars :
                      chars[j] = sep /\ \A k \in 1..(j - 1) : chars[k] # sep
         IN << SubSeq(chars, 1, i - 1) >> \o split(SubSeq(chars, i + 1, Len(chars)), sep)

\* "=" * n
PadChars(n) == [ i \in 1..n |-> "=" ]

Base64Value(char) == CHOOSE i \in 0..63 : UrlSafeAlphabet[i + 1] = char

RECURSIVE Base64UrlDecode(_)
\* The bytes an unpadded URL-safe base64 text stands for.
Base64UrlDecode(chars) ==
    IF Len(chars) < 2 THEN <<>>
    ELSE LET v1 == Base64Value(chars[1])
             v2 == Base64Value(chars[2])
         IN IF Len(chars) = 2 THEN << v1 * 4 + (v2 \div 16) >>
            ELSE LET v3 == Base64Value(chars[3]) IN
                 IF Len(chars) = 3
                 THEN << v1 * 4 + (v2 \div 16), (v2 % 16) * 16 + (v3 \div 4) >>
                 ELSE << v1 * 4 + (v2 \div 16), (v2 % 16) * 16 + (v3 \div 4),
                         (v3 % 4) * 64 + Base64Value(chars[4]) >>
                      \o Base64UrlDecode(SubSeq(chars, 5, Len(chars)))

\* base64.urlsafe_b64decode of a text padded at its end: characters outside
\* the alphabet are dropped; it raises binascii.Error when the data characters
\* are one more than a multiple of four or the padding is short.
urlsafe_b64decode(chars) ==
    LET data == SelectSeq(chars, LAMBDA c : \E i \in DOMAIN UrlSafeAlphabet :
                                                 UrlSafeAlphabet[i] = c)
        pads == Len(SelectSeq(chars, LAMBDA c : c = "="))
        rest == Len(data) % 4
    IN IF rest = 1 \/ (rest # 0 /\ pads < 4 - rest)
       THEN [raised |-> TRUE, bytes |-> << >>]
       ELSE [raised |-> FALSE, bytes |-> Base64UrlDecode(data)]

\* The value a JSON text parses to: a dict or a list with its content as
\* pairs of a key (or index) and a text, the text as its space-separated
\* pieces.
EmptyDict == [type |-> "dict", content |-> {}]

\* json.loads of the byte strings the tokens hold: {"sub":"a"}, [1],
\* {"scope":"hr:read"} and {"scope":"hr:read hr:write admin"}; it raises
\* JSONDecodeError for bytes that are no JSON text.
json_loads(bytes) ==
    IF bytes = << 123, 34, 115, 117, 98, 34, 58, 34, 97, 34, 125 >>
    THEN [type |-> "dict", content |-> { << "sub", << "a" >> >> }]
    ELSE IF bytes = << 91, 49, 93 >>
    THEN [type |-> "list", content |-> { << "0", << "1" >> >> }]
    ELSE IF bytes = << 123, 34, 115, 99, 111, 112, 101, 34, 58, 34, 104, 114, 58, 114,
                       101, 97, 100, 34, 125 >>
    THEN [type |-> "dict", content |-> { << "scope", << "hr:read" >> >> }]
    ELSE IF bytes = << 123, 34, 115, 99, 111, 112, 101, 34, 58, 34, 104, 114, 58, 114,
                       101, 97, 100, 32, 104, 114, 58, 119, 114, 105, 116, 101, 32, 97,
                       100, 109, 105, 110, 34, 125 >>
    THEN [type |-> "dict",
          content |-> { << "scope", << "hr:read", " ", "hr:write", " ", "admin" >> >> }]
    ELSE [type |-> "raise", content |-> {}]

\* decode_jwt_payload, lines 108-119: every exception inside the try block
\* (None has no split, binascii.Error, JSONDecodeError) ends in return {}.
decode_jwt_payload(token) ==
    IF token = None THEN EmptyDict
    ELSE LET parts == split(TokenText(token), ".") IN
         IF Len(parts) < 2 THEN EmptyDict
         ELSE LET payload == parts[2] \o PadChars(4 - (Len(parts[2]) % 4))
                  decoded == urlsafe_b64decode(payload)
              IN IF decoded.raised THEN EmptyDict
                 ELSE IF json_loads(decoded.bytes).type = "raise" THEN EmptyDict
                 ELSE json_loads(decoded.bytes)

\* decode_jwt_payload of every value a token response can hold as its
\* access_token, computed once.
DecodedPayloads ==
    [ token \in AccessTokens \cup DelegatedTokens \cup {None, ""} |->
        decode_jwt_payload(token) ]

\* print_jwt_claims, lines 122-130: claims.get raises AttributeError when the
\* payload decoded to a value that is not a dict.
print_jwt_claims(token) ==
    LET claims == DecodedPayloads[token] IN
    [raised |-> claims.type # "dict", claims |-> claims]

-----------------------------------------------------------------------------
(* The step functions: what each returns, or that it raises, for a response *)

\* Variant: the code embedded in a terminal response is not looked at.
step1_get_flow_id_no_shortcut(resp) ==
    IF resp.type # "json" \/ ~Truthy(resp.flowId)
    THEN [raised |-> TRUE, flow_id |-> None, direct_code |-> None]
    ELSE [raised |-> FALSE, flow_id |-> resp.flowId, direct_code |-> None]

\* Variant: a response without a flowId is not rejected.
step1_get_flow_id_unchecked(resp) ==
    IF resp.type # "json" THEN [raised |-> TRUE, flow_id |-> None, direct_code |-> None]
    ELSE IF resp.flowStatus = "SUCCESS_COMPLETED" /\ code_of(resp) = "raise"
    THEN [raised |-> TRUE, flow_id |-> None, direct_code |-> None]
    ELSE IF resp.flowStatus = "SUCCESS_COMPLETED" /\ Truthy(code_of(resp))
    THEN [raised |-> FALSE, flow_id |-> None, direct_code |-> code_of(resp)]
    ELSE [raised |-> FALSE, flow_id |-> resp.flowId, direct_code |-> None]

\* Variant: the flowId of a terminal response is returned beside its code.
step1_get_flow_id_returns_both(resp) ==
    IF resp.type # "json" THEN [raised |-> TRUE, flow_id |-> None, direct_code |-> None]
    ELSE IF resp.flowStatus = "SUCCESS_COMPLETED" /\ code_of(resp) = "raise"
    THEN [raised |-> TRUE, flow_id |-> None, direct_code |-> None]
    ELSE IF resp.flowStatus = "SUCCESS_COMPLETED" /\ Truthy(code_of(resp))
    THEN [raised |-> FALSE, flow_id |-> resp.flowId, direct_code |-> code_of(resp)]
    ELSE IF ~Truthy(resp.flowId)
    THEN [raised |-> TRUE, flow_id |-> None, direct_code |-> None]
    ELSE [raised |-> FALSE, flow_id |-> resp.flowId, direct_code |-> None]

\* step1_get_flow_id, lines 179-195.
step1_get_flow_id(resp) ==
    IF resp.type # "json" THEN [raised |-> TRUE, flow_id |-> None, direct_code |-> None]
    ELSE IF resp.flowStatus = "SUCCESS_COMPLETED" /\ code_of(resp) = "raise"
    THEN [raised |-> TRUE, flow_id |-> None, direct_code |-> None]
    ELSE IF resp.flowStatus = "SUCCESS_COMPLETED" /\ Truthy(code_of(resp))
    THEN [raised |-> FALSE, flow_id |-> None, direct_code |-> code_of(resp)]
    ELSE IF ~Truthy(resp.flowId)
    THEN [raised |-> TRUE, flow_id |-> None, direct_code |-> None]
    ELSE [raised |-> FALSE, flow_id |-> resp.flowId, direct_code |-> None]

\* Variant: a response without a code is not rejected.
step2_authenticate_agent_unchecked(resp) ==
    IF resp.type # "json" \/ code_of(resp) = "raise" THEN [raised |-> TRUE, code |-> None]
    ELSE [raised |-> FALSE, code |-> code_of(resp)]

\* step2_authenticate_agent, lines 228-240.
step2_authenticate_agent(resp) ==
    IF resp.type # "json" THEN [raised |-> TRUE, code |-> None]
    ELSE IF code_of(resp) = "raise" \/ ~Truthy(code_of(resp))
    THEN [raised |-> TRUE, code |-> None]
    ELSE [raised |-> FALSE, code |-> code_of(resp)]

\* Variant: the status of the response is not tested.
step3_exchange_code_for_token_ignores_status(resp) ==
    IF resp.type # "json" \/ resp.access_token = None
    THEN [raised |-> TRUE, access_token |-> None]
    ELSE [raised |-> FALSE, access_token |-> resp.access_token]

\* step3_exchange_code_for_token, lines 274-282: access_token[:60] raises on None.
step3_exchange_code_for_token(resp) ==
    IF resp.type # "json" \/ resp.status # 200 \/ resp.access_token = None
    THEN [raised |-> TRUE, access_token |-> None]
    ELSE [raised |-> FALSE, access_token |-> resp.access_token]

\* token_exchange_downscope, lines 396-413: print_token's len(token) raises on
\* None, print_jwt_claims raises on a payload that is not a dict.
token_exchange_downscope(resp) ==
    IF resp.type # "json" \/ resp.status # 200 \/ resp.access_token = None
    THEN [raised |-> TRUE, access_token |-> None]
    ELSE IF print_jwt_claims(resp.access_token).raised
    THEN [raised |-> TRUE, access_token |-> None]
    ELSE [raised |-> FALSE, access_token |-> resp.access_token]

-----------------------------------------------------------------------------
(* Frames and initial state *)

\* No call of get_actor_token_3step is running.
NoFlow ==
    [ agent_id |-> Unbound, agent_secret |-> Unbound,
      app_client_id |-> Unbound, app_client_secret |-> Unbound,
      scopes |-> <<>>, label |-> 0,
      code_verifier |-> Unbound, code_challenge |-> <<>>, fresh_client |-> 0,
      flow_id |-> Unbound, direct_code |-> Unbound, code |-> Unbound,
      actor_token |-> Unbound ]

NoResponse ==
    [ type |-> "none", status |-> 0, flowId |-> None, flowStatus |-> None, code |-> None,
      authData |-> "absent", authDataCode |-> None, access_token |-> None ]

\* The client main() opens at line 427 is the first one created.
MainClient == 1

\* The state main() starts in, talking to the provider idp.
StartOfRun(idp) ==
    /\ AGENTS \in { f \in [AgentKeys -> UNION { AgentCfgs(k) : k \in AgentKeys }] :
                      \A k \in AgentKeys : f[k] \in AgentCfgs(k) }
    /\ pc = "phase1"
    /\ agent_key = 0
    /\ orchestrator_actor_token = Unbound
    /\ agent_actor_token = Unbound
    /\ exchanged_token = Unbound
    /\ flow = NoFlow
    /\ response = NoResponse
    /\ requests = <<>>
    /\ stdout = <<>>
    /\ n_clients = 1
    /\ n_pkce = 0
    /\ provider = idp

Init == StartOfRun(AnyProvider)

-----------------------------------------------------------------------------
(* get_actor_token_3step *)

\* Variant: the steps use the client that main passed in, no client is
\* opened for the invocation.
get_actor_token_3step_passed_client(agent_id, agent_secret, app_client_id, app_client_secret, label, verifier) ==
    /\ flow' = [ NoFlow EXCEPT
                   !.agent_id = agent_id, !.agent_secret = agent_secret,
                   !.app_client_id = app_client_id,
                   !.app_client_secret = app_client_secret,
                   !.scopes = << "openid" >>, !.label = label,
                   !.code_verifier = generate_pkce(verifier).code_verifier,
                   !.code_challenge = generate_pkce(verifier).code_challenge,
                   !.fresh_client = MainClient ]
    /\ n_clients' = n_clients
    /\ n_pkce' = n_pkce + 1
    /\ stdout' = Append(stdout, [tag |-> "FLOW", agent |-> label])
    /\ requests' = <<>>
    /\ response' = NoResponse
    /\ pc' = "step1"

\* Variant: one client is opened by the first invocation and kept for the
\* invocations that follow.
get_actor_token_3step_kept_client(agent_id, agent_secret, app_client_id, app_client_secret, label, verifier) ==
    /\ flow' = [ NoFlow EXCEPT
                   !.agent_id = agent_id, !.agent_secret = agent_secret,
                   !.app_client_id = app_client_id,
                   !.app_client_secret = app_client_secret,
                   !.scopes = << "openid" >>, !.label = label,
                   !.code_verifier = generate_pkce(verifier).code_verifier,
                   !.code_challenge = generate_pkce(verifier).code_challenge,
                   !.fresh_client = MainClient + 1 ]
    /\ n_clients' = MainClient + 1
    /\ n_pkce' = n_pkce + 1
    /\ stdout' = Append(stdout, [tag |-> "FLOW", agent |-> label])
    /\ requests' = <<>>
    /\ response' = NoResponse
    /\ pc' = "step1"

\* Lines 300-313: the call binds the parameters, prints the header of the
\* flow, generates the PKCE pair and opens a fresh client; verifier is what
\* the random source returned.
get_actor_token_3step(agent_id, agent_secret, app_client_id, app_client_secret, label, verifier) ==
    /\ flow' = [ NoFlow EXCEPT
                   !.agent_id = agent_id, !.agent_secret = agent_secret,
                   !.app_client_id = app_client_id,
                   !.app_client_secret = app_client_secret,
                   !.scopes = << "openid" >>, !.label = label,
                   !.code_verifier = generate_pkce(verifier).code_verifier,
                   !.code_challenge = generate_pkce(verifier).code_challenge,
                   !.fresh_client = n_clients + 1 ]
    /\ n_clients' = n_clients + 1
    /\ n_pkce' = n_pkce + 1
    /\ stdout' = Append(stdout, [tag |-> "FLOW", agent |-> label])
    /\ requests' = <<>>
    /\ response' = NoResponse
    /\ pc' = "step1"

\* Variant: the handler of the loop ends the run as the handler of phase 1 does.
FlowRaises_aborts_run ==
    /\ flow' = NoFlow
    /\ pc' = "aborted"
    /\ stdout' = Append(stdout, [tag |-> IF agent_key = 0 THEN "FATAL" ELSE "ERROR",
                                 agent |-> agent_key])

\* Variant: the handler of phase 1 goes on to the loop as the handler of the loop does.
FlowRaises_continues ==
    /\ flow' = NoFlow
    /\ pc' = "loop"
    /\ stdout' = Append(stdout, [tag |-> IF agent_key = 0 THEN "FATAL" ELSE "ERROR",
                                 agent |-> agent_key])

\* An exception leaves get_actor_token_3step and reaches the handler of main:
\* lines 443-447 in phase 1 (the run returns), lines 493-497 in the loop.
FlowRaises ==
    /\ flow' = NoFlow
    /\ IF agent_key = 0
       THEN /\ pc' = "aborted"
            /\ stdout' = Append(stdout, [tag |-> "FATAL", agent |-> 0])
       ELSE /\ pc' = "loop"
            /\ stdout' = Append(stdout, [tag |-> "ERROR", agent |-> agent_key])

\* Lines 317-328: step 1 and the branch on direct_code.
Step1 ==
    /\ pc = "step1"
    /\ \E resp \in AuthorizeResponsesOn(flow.fresh_client) :
         /\ requests' = Append(requests,
                step1_request(flow.fresh_client, flow.app_client_id,
                              flow.app_client_secret, flow.scopes, flow.code_challenge))
         /\ response' = resp
         /\ LET r == step1_get_flow_id(resp) IN
              IF r.raised
              THEN FlowRaises
              ELSE /\ stdout' = stdout
                   /\ IF Truthy(r.direct_code)
                      THEN /\ flow' = [flow EXCEPT !.flow_id = r.flow_id,
                                                   !.direct_code = r.direct_code,
                                                   !.code = r.direct_code]
                           /\ pc' = "step3"
                      ELSE /\ flow' = [flow EXCEPT !.flow_id = r.flow_id,
                                                   !.direct_code = r.direct_code]
                           /\ pc' = "step2"
    /\ UNCHANGED << AGENTS, provider, agent_key, orchestrator_actor_token, agent_actor_token,
                    exchanged_token, n_clients, n_pkce >>

\* Lines 330-337: step 2.
Step2 ==
    /\ pc = "step2"
    /\ \E resp \in AuthnResponses :
         /\ requests' = Append(requests,
                step2_request(flow.fresh_client, flow.flow_id,
                              flow.agent_id, flow.agent_secret))
         /\ response' = resp
         /\ provider' = AfterAuthn(flow.fresh_client, resp)
         /\ LET r == step2_authenticate_agent(resp) IN
              IF r.raised
              THEN FlowRaises
              ELSE /\ stdout' = stdout
                   /\ flow' = [flow EXCEPT !.code = r.code]
                   /\ pc' = "step3"
    /\ UNCHANGED << AGENTS, agent_key, orchestrator_actor_token, agent_actor_token,
                    exchanged_token, n_clients, n_pkce >>

\* Variant: a token request that failed is sent once more.
Step3_retries ==
    /\ pc = "step3"
    /\ \E resp \in TokenResponsesFor(flow.code) :
         /\ requests' = Append(requests,
                step3_request(flow.fresh_client, flow.app_client_id,
                              flow.app_client_secret, flow.code, flow.code_verifier))
         /\ response' = resp
         /\ provider' = AfterToken(flow.code, resp)
         /\ LET r == step3_exchange_code_for_token(resp) IN
              IF r.raised
              THEN IF \A i \in DOMAIN requests : requests[i].kind # "token"
                   THEN UNCHANGED << flow, pc, stdout >>
                   ELSE FlowRaises
              ELSE /\ stdout' = stdout
                   /\ flow' = [flow EXCEPT !.actor_token = r.access_token]
                   /\ pc' = "return"
    /\ UNCHANGED << AGENTS, agent_key, orchestrator_actor_token, agent_actor_token,
                    exchanged_token, n_clients, n_pkce >>

\* Lines 339-347: step 3.
Step3 ==
    /\ pc = "step3"
    /\ \E resp \in TokenResponsesFor(flow.code) :
         /\ requests' = Append(requests,
                step3_request(flow.fresh_client, flow.app_client_id,
                              flow.app_client_secret, flow.code, flow.code_verifier))
         /\ response' = resp
         /\ provider' = AfterToken(flow.code, resp)
         /\ LET r == step3_exchange_code_for_token(resp) IN
              IF r.raised
              THEN FlowRaises
              ELSE /\ stdout' = stdout
                   /\ flow' = [flow EXCEPT !.actor_token = r.access_token]
                   /\ pc' = "return"
    /\ UNCHANGED << AGENTS, agent_key, orchestrator_actor_token, agent_actor_token,
                    exchanged_token, n_clients, n_pkce >>

\* Variant: main binds the token of every flow to orchestrator_actor_token
\* as well.
FlowReturn_rebinds_orchestrator_token ==
    /\ pc = "return"
    /\ IF print_jwt_claims(flow.actor_token).raised
       THEN /\ FlowRaises
            /\ UNCHANGED << orchestrator_actor_token, agent_actor_token >>
       ELSE /\ IF agent_key = 0
               THEN /\ orchestrator_actor_token' = flow.actor_token
                    /\ agent_actor_token' = agent_actor_token
                    /\ pc' = "loop"
               ELSE /\ agent_actor_token' = flow.actor_token
                    /\ orchestrator_actor_token' = flow.actor_token
                    /\ pc' = "exchange"
            /\ flow' = NoFlow
            /\ stdout' = stdout
    /\ UNCHANGED << AGENTS, provider, agent_key, exchanged_token, response, requests,
                    n_clients, n_pkce >>

\* Lines 349-356: the token and its claims are printed, then the token is
\* returned to main, which binds it (line 434 or line 466); print_jwt_claims
\* may raise, and the exception leaves the flow as any other.
FlowReturn ==
    /\ pc = "return"
    /\ IF print_jwt_claims(flow.actor_token).raised
       THEN /\ FlowRaises
            /\ UNCHANGED << orchestrator_actor_token, agent_actor_token >>
       ELSE /\ IF agent_key = 0
               THEN /\ orchestrator_actor_token' = flow.actor_token
                    /\ agent_actor_token' = agent_actor_token
                    /\ pc' = "loop"
               ELSE /\ agent_actor_token' = flow.actor_token
                    /\ orchestrator_actor_token' = orchestrator_actor_token
                    /\ pc' = "exchange"
            /\ flow' = NoFlow
            /\ stdout' = stdout
    /\ UNCHANGED << AGENTS, provider, agent_key, exchanged_token, response, requests,
                    n_clients, n_pkce >>

-----------------------------------------------------------------------------
(* main *)

\* Lines 433-442: phase 1 starts the orchestrator's flow.
MainPhase1 ==
    /\ pc = "phase1"
    /\ \E verifier \in Verifiers :
         get_actor_token_3step(ORCHESTRATOR_AGENT_ID, ORCHESTRATOR_AGENT_SECRET,
                               ORCHESTRATOR_CLIENT_ID, ORCHESTRATOR_CLIENT_SECRET,
                               0, verifier)
    /\ UNCHANGED << AGENTS, provider, agent_key, orchestrator_actor_token, agent_actor_token,
                    exchanged_token >>

\* Variant: the credentials of the entry are not tested, the flow starts for
\* every entry.
MainNextAgent_no_skip ==
    /\ pc = "loop"
    /\ agent_key < NumWorkers
    /\ agent_key' = agent_key + 1
    /\ agent_actor_token' = Unbound
    /\ exchanged_token' = Unbound
    /\ LET agent_cfg == AGENTS[agent_key + 1] IN
         \E verifier \in Verifiers :
              get_actor_token_3step(agent_cfg.agent_id, agent_cfg.agent_secret,
                                    TOKEN_EXCHANGER_CLIENT_ID,
                                    TOKEN_EXCHANGER_CLIENT_SECRET,
                                    agent_key + 1, verifier)
    /\ UNCHANGED << AGENTS, provider, orchestrator_actor_token >>

\* Lines 455-474: the next entry of AGENTS is skipped, or its flow starts.
\* agent_actor_token and exchanged_token are bound before they are read in
\* every iteration (lines 466, 485): the model keeps the binding of the
\* current iteration only.
MainNextAgent ==
    /\ pc = "loop"
    /\ agent_key < NumWorkers
    /\ agent_key' = agent_key + 1
    /\ agent_actor_token' = Unbound
    /\ exchanged_token' = Unbound
    /\ LET agent_cfg == AGENTS[agent_key + 1] IN
         IF ~Truthy(agent_cfg.agent_id) \/ ~Truthy(agent_cfg.agent_secret)
         THEN /\ stdout' = Append(stdout, [tag |-> "SKIP", agent |-> agent_key + 1])
              /\ pc' = "loop"
              /\ requests' = <<>>
              /\ response' = NoResponse
              /\ UNCHANGED << flow, n_clients, n_pkce >>
         ELSE \E verifier \in Verifiers :
                   get_actor_token_3step(agent_cfg.agent_id, agent_cfg.agent_secret,
                                         TOKEN_EXCHANGER_CLIENT_ID,
                                         TOKEN_EXCHANGER_CLIENT_SECRET,
                                         agent_key + 1, verifier)
    /\ UNCHANGED << AGENTS, provider, orchestrator_actor_token >>

\* Variant: a token exchange that failed is sent once more.
TokenExchange_retries ==
    /\ pc = "exchange"
    /\ \E resp \in ExchangeResponses :
         /\ requests' = << exchange_request(MainClient, orchestrator_actor_token,
                                            agent_actor_token,
                                            AGENTS[agent_key].scopes) >>
         /\ response' = resp
         /\ LET r == token_exchange_downscope(resp) IN
              IF r.raised
              THEN /\ stdout' = Append(stdout, [tag |-> "ERROR", agent |-> agent_key])
                   /\ exchanged_token' = exchanged_token
                   /\ pc' = IF \A i \in DOMAIN requests : requests[i].kind # "exchange"
                            THEN "exchange" ELSE "loop"
              ELSE /\ stdout' = Append(stdout, [tag |-> "EXCHANGED_TOKEN", agent |-> agent_key])
                   /\ exchanged_token' = r.access_token
                   /\ pc' = "loop"
    /\ UNCHANGED << AGENTS, provider, agent_key, orchestrator_actor_token, agent_actor_token,
                    flow, n_clients, n_pkce >>

\* Lines 485-497: the token exchange of the current worker and its outcome.
TokenExchange ==
    /\ pc = "exchange"
    /\ \E resp \in ExchangeResponses :
         /\ requests' = << exchange_request(MainClient, orchestrator_actor_token,
                                            agent_actor_token,
                                            AGENTS[agent_key].scopes) >>
         /\ response' = resp
         /\ LET r == token_exchange_downscope(resp) IN
              IF r.raised
              THEN /\ stdout' = Append(stdout, [tag |-> "ERROR", agent |-> agent_key])
                   /\ exchanged_token' = exchanged_token
              ELSE /\ stdout' = Append(stdout, [tag |-> "EXCHANGED_TOKEN", agent |-> agent_key])
                   /\ exchanged_token' = r.access_token
    /\ pc' = "loop"
    /\ UNCHANGED << AGENTS, provider, agent_key, orchestrator_actor_token, agent_actor_token,
                    flow, n_clients, n_pkce >>

\* The entries the closing summary text (lines 517-524) lists under
\* EXCHANGED_TOKENs: one for every configured worker, whatever happened.
SummaryExchangedTokens == AgentKeys

\* Lines 502-525: the loop is over and the summary is printed.
MainSummary ==
    /\ pc = "loop"
    /\ agent_key = NumWorkers
    /\ stdout' = Append(stdout, [tag |-> "SUMMARY", agent |-> 0])
    /\ pc' = "done"
    /\ UNCHANGED << AGENTS, provider, agent_key, orchestrator_actor_token, agent_actor_token,
                    exchanged_token, flow, response, requests, n_clients, n_pkce >>

Next ==
    \/ MainPhase1
    \/ Step1
    \/ Step2
    \/ Step3
    \/ FlowReturn
    \/ MainNextAgent
    \/ TokenExchange
    \/ MainSummary

Spec == Init /\ [][Next]_vars

\* The run of main when every network call returns or fails within its
\* timeout (httpx.AsyncClient(timeout=30.0), lines 313 and 427): the step
\* the run is at is eventually taken.
FairSpec == Init /\ [][Next]_vars /\ WF_vars(Next)

\* The run of main against the provider that short-circuits step 1 only on
\* an authenticated session.
SessionInit == StartOfRun(SessionProvider)

SessionSpec == SessionInit /\ [][Next]_vars

-----------------------------------------------------------------------------
(* A test that calls step3_exchange_code_for_token repeatedly with one     *)
(* authorization code and verifier, against the single-use-code provider   *)

\* Calls of step3_exchange_code_for_token the test makes.
MaxCalls == 3

\* The test holds a code, the verifier of its PKCE pair and the application's
\* credentials; the frame keeps the arguments of the calls and, in
\* actor_token, what the latest call returned.
ReplayInit ==
    /\ AGENTS = [ k \in AgentKeys |->
                    CHOOSE c \in AgentCfgs(k) :
                        Truthy(c.agent_id) /\ Truthy(c.agent_secret)
                        /\ c.scopes = SortedScopeList ]
    /\ pc = "test_step3"
    /\ agent_key = 0
    /\ orchestrator_actor_token = Unbound
    /\ agent_actor_token = Unbound
    /\ exchanged_token = Unbound
    /\ \E c \in TopLevelCodes \cup AuthDataCodes, verifier \in Verifiers,
          app \in { <<ORCHESTRATOR_CLIENT_ID, ORCHESTRATOR_CLIENT_SECRET>>,
                    <<TOKEN_EXCHANGER_CLIENT_ID, TOKEN_EXCHANGER_CLIENT_SECRET>> } :
         flow = [ NoFlow EXCEPT
                    !.app_client_id = app[1], !.app_client_secret = app[2],
                    !.code_verifier = generate_pkce(verifier).code_verifier,
                    !.code_challenge = generate_pkce(verifier).code_challenge,
                    !.fresh_client = MainClient, !.code = c ]
    /\ response = NoResponse
    /\ requests = <<>>
    /\ stdout = <<>>
    /\ n_clients = 1
    /\ n_pkce = 1
    /\ provider = SingleUseCodeProvider

\* One call of step3_exchange_code_for_token (lines 243-282) with the code and
\* the verifier of the test; the test notes whether the call raised.
CallStep3 ==
    /\ pc = "test_step3"
    /\ Len(requests) < MaxCalls
    /\ \E resp \in TokenResponsesFor(flow.code) :
         /\ requests' = Append(requests,
                step3_request(flow.fresh_client, flow.app_client_id,
                              flow.app_client_secret, flow.code, flow.code_verifier))
         /\ response' = resp
         /\ provider' = AfterToken(flow.code, resp)
         /\ LET r == step3_exchange_code_for_token(resp) IN
              IF r.raised
              THEN /\ stdout' = Append(stdout, [tag |-> "RAISED", agent |-> 0])
                   /\ flow' = [flow EXCEPT !.actor_token = Unbound]
              ELSE /\ stdout' = Append(stdout, [tag |-> "RETURNED", agent |-> 0])
                   /\ flow' = [flow EXCEPT !.actor_token = r.access_token]
    /\ UNCHANGED << AGENTS, pc, agent_key, orchestrator_actor_token, agent_actor_token,
                    exchanged_token, n_clients, n_pkce >>

ReplayNext == CallStep3

ReplaySpec == ReplayInit /\ [][ReplayNext]_vars

-----------------------------------------------------------------------------
(* The HR, Booking and Approval agents: one call of process_request.  The  *)
(* frame of the call is held in flow, the API requests it has sent in      *)
(* requests, the latest API response in response, and what the call        *)
(* returned in stdout.                                                     *)

AgentNames == {"hr", "booking", "approval"}

\* The words queries are made of, and how many of them a query holds at most.
Words ==
    { "create", "list", "grant", "approve", "reject", "laptop", "orientation",
      "schedule", "APR-1" }

MaxWords == 2

Queries == { q \in SUBSET Words : Cardinality(q) <= MaxWords }

\* any(kw in query_lower for kw in keywords)
any_kw(query, keywords) == query \cap keywords # {}

\* The token argument of process_request: omitted, empty, or a token.
CallerTokens == {None, "", "tokA", "tokN"}

\* What client.request / client.get gives: it raises (connection error,
\* timeout), or a response with a status and a body that is no JSON text, a
\* JSON object (with or without a request_id) or a JSON array.
ApiResponses ==
    { [ type |-> "network_error", status |-> 0, body |-> "none", request_id |-> None ] }
    \cup { [ type |-> "not_json", status |-> st, body |-> "none", request_id |-> None ] :
             st \in {200, 403} }
    \cup { [ type |-> "json", status |-> st, body |-> b,
             request_id |-> IF b = "dict_with_id" THEN "APR-9" ELSE None ] :
             st \in {200, 403}, b \in {"dict", "dict_with_id", "list"} }

NoResult == [ raised |-> FALSE, success |-> FALSE, request_id |-> None ]

\* _call_api of the three agents: an error status gives a failure result;
\* response.json() raises on a body that is no JSON; the HR agent assigns
\* result["success"] on whatever was parsed (TypeError on an array), the
\* other two wrap a body that is no object.
call_api(agent, resp) ==
    IF resp.type = "network_error" THEN [NoResult EXCEPT !.raised = TRUE]
    ELSE IF resp.status >= 400 THEN NoResult
    ELSE IF resp.type = "not_json" THEN [NoResult EXCEPT !.raised = TRUE]
    ELSE IF resp.body = "list"
    THEN IF agent = "hr" THEN [NoResult EXCEPT !.raised = TRUE]
         ELSE [NoResult EXCEPT !.success = TRUE]
    ELSE [NoResult EXCEPT !.success = TRUE, !.request_id = resp.request_id]

\* list_employees, list_tasks, list_deliveries, list_requests: the parsed
\* body is stored under a key of the result, whatever it is.
list_api(resp) ==
    IF resp.type = "network_error" THEN [NoResult EXCEPT !.raised = TRUE]
    ELSE IF resp.status >= 400 THEN NoResult
    ELSE IF resp.type = "not_json" THEN [NoResult EXCEPT !.raised = TRUE]
    ELSE [NoResult EXCEPT !.success = TRUE]

ListOps == {"list_employees", "list_tasks", "list_deliveries", "list_requests"}

\* The lines of a listing are built with item.get(...) for every item of the
\* body: iterating a JSON object gives its keys, and str has no get.
listing_raises(resp) == resp.type = "json" /\ resp.body # "list"

\* _extract_request_id: the first APR-... of the query.
extract_request_id(query) == IF "APR-1" \in query THEN "APR-1" ELSE None

\* The API operation the query leads to first, "none" when process_request
\* answers with its help text.
first_operation(agent, query) ==
    IF agent = "hr"
    THEN IF /\ any_kw(query, {"privilege", "grant", "permission", "role", "access",
                              "elevat", "approved"})
            /\ any_kw(query, {"grant", "give", "assign", "approved", "fulfill"})
         THEN "grant_privileges"
         ELSE IF any_kw(query, {"create", "onboard", "hire", "add employee", "new employee"})
         THEN "create_employee"
         ELSE IF any_kw(query, {"list", "show", "get employees", "all employees"})
         THEN "list_employees"
         ELSE "none"
    ELSE IF agent = "booking"
    THEN IF any_kw(query, {"orientation", "training", "schedule task", "onboarding session"})
         THEN "create_task"
         ELSE IF any_kw(query, {"delivery", "laptop", "equipment", "ship", "send"})
         THEN "schedule_delivery"
         ELSE IF any_kw(query, {"schedule", "book"})
         THEN "create_task"
         ELSE IF any_kw(query, {"list", "show", "pending", "status", "check"})
         THEN "list_tasks"
         ELSE "none"
    ELSE IF extract_request_id(query) # None
         THEN IF "reject" \in query THEN "reject_request"
              ELSE IF any_kw(query, {"approve", "accept"}) THEN "approve_request"
              ELSE "get_request"
         ELSE IF any_kw(query, {"create", "request", "submit", "need approval",
                                "grant", "give", "assign", "approve"})
         THEN "create_approval_request"
         ELSE IF any_kw(query, {"status", "check", "pending", "list", "show"})
         THEN "list_requests"
         ELSE "none"

\* The request an operation sends: method, path and the Authorization header.
api_request(agent, op, request_id, token) ==
    [ kind |-> "api", agent |-> agent, op |-> op,
      method |-> IF op \in ListOps \cup {"get_request"} THEN "GET" ELSE "POST",
      path |-> CASE op \in {"grant_privileges", "create_employee", "list_employees"}
                      -> << "/employees" >>
                 [] op \in {"create_task", "list_tasks"} -> << "/tasks" >>
                 [] op \in {"schedule_delivery", "list_deliveries"} -> << "/deliveries" >>
                 [] op \in {"create_approval_request", "list_requests"} -> << "/requests" >>
                 [] op = "get_request" -> << "/requests/", request_id >>
                 [] op = "approve_request" -> << "/requests/", request_id, "/approve" >>
                 [] op = "reject_request" -> << "/requests/", request_id, "/reject" >>,
      authorization |-> << "Bearer", token >> ]

NoCall ==
    [ agent |-> "none", query |-> {}, token |-> None, op |-> "none",
      request_id |-> None, result |-> NoResult ]

\* A caller is about to call process_request(query, token) of an agent.
AgentInit ==
    /\ AGENTS = [ k \in AgentKeys |->
                    CHOOSE c \in AgentCfgs(k) :
                        Truthy(c.agent_id) /\ Truthy(c.agent_secret)
                        /\ c.scopes = SortedScopeList ]
    /\ pc = "process_request"
    /\ agent_key = 0
    /\ orchestrator_actor_token = Unbound
    /\ agent_actor_token = Unbound
    /\ exchanged_token = Unbound
    /\ \E agent \in AgentNames, query \in Queries, token \in CallerTokens :
         flow = [ NoCall EXCEPT !.agent = agent, !.query = query, !.token = token ]
    /\ response = NoResponse
    /\ requests = <<>>
    /\ stdout = <<>>
    /\ n_clients = 0
    /\ n_pkce = 0
    /\ provider = AnyProvider

\* process_request returns the text.
Reply(tag) ==
    /\ stdout' = Append(stdout, [tag |-> tag, agent |-> flow.agent])
    /\ pc' = "replied"

\* Variant: the token is not tested.
process_request_unchecked ==
    /\ pc = "process_request"
    /\ LET op == first_operation(flow.agent, flow.query) IN
         IF op = "none"
         THEN Reply("HELP") /\ flow' = flow
         ELSE /\ flow' = [flow EXCEPT !.op = op,
                                      !.request_id = extract_request_id(flow.query)]
              /\ pc' = "call_api"
              /\ stdout' = stdout
    /\ UNCHANGED << AGENTS, provider, agent_key, orchestrator_actor_token,
                    agent_actor_token, exchanged_token, response, requests,
                    n_clients, n_pkce >>

\* process_request up to its first API call: the token test (hr 134,
\* booking 139, approval 148) and the choice of the operation.
process_request ==
    /\ pc = "process_request"
    /\ IF ~Truthy(flow.token)
       THEN Reply("NO_TOKEN") /\ flow' = flow
       ELSE LET op == first_operation(flow.agent, flow.query) IN
            IF op = "none"
            THEN Reply("HELP") /\ flow' = flow
            ELSE /\ flow' = [flow EXCEPT !.op = op,
                                         !.request_id = extract_request_id(flow.query)]
                 /\ pc' = "call_api"
                 /\ stdout' = stdout
    /\ UNCHANGED << AGENTS, provider, agent_key, orchestrator_actor_token,
                    agent_actor_token, exchanged_token, response, requests,
                    n_clients, n_pkce >>

\* The first API call of the branch and what process_request does with its
\* result.
CallApi ==
    /\ pc = "call_api"
    /\ \E resp \in ApiResponses :
         /\ requests' = Append(requests,
                api_request(flow.agent, flow.op, flow.request_id, flow.token))
         /\ response' = resp
         /\ LET result == IF flow.op \in ListOps THEN list_api(resp)
                          ELSE call_api(flow.agent, resp)
            IN IF result.raised
               THEN /\ pc' = "raised"
                    /\ UNCHANGED << flow, stdout >>
               ELSE IF flow.op = "list_tasks"
               THEN /\ flow' = [flow EXCEPT !.result = result, !.op = "list_deliveries"]
                    /\ pc' = "list_deliveries"
                    /\ stdout' = stdout
               ELSE IF flow.op = "create_approval_request" /\ result.success
                       /\ Truthy(result.request_id)
               THEN /\ flow' = [flow EXCEPT !.result = result, !.op = "approve_request",
                                            !.request_id = result.request_id]
                    /\ pc' = "auto_approve"
                    /\ stdout' = stdout
               ELSE /\ flow' = [flow EXCEPT !.result = result]
                    /\ IF ~result.success THEN Reply("FAILED")
                       ELSE IF flow.op = "create_approval_request" THEN Reply("CREATED")
                       ELSE IF flow.op \in ListOps /\ listing_raises(resp)
                       THEN pc' = "raised" /\ stdout' = stdout
                       ELSE Reply("OK")
    /\ UNCHANGED << AGENTS, provider, agent_key, orchestrator_actor_token,
                    agent_actor_token, exchanged_token, n_clients, n_pkce >>

\* ApprovalAgent.process_request, lines 220-252: the request that was
\* created is approved; the reply tells whether the approval succeeded.
AutoApprove ==
    /\ pc = "auto_approve"
    /\ \E resp \in ApiResponses :
         /\ requests' = Append(requests,
                api_request(flow.agent, "approve_request", flow.request_id, flow.token))
         /\ response' = resp
         /\ LET approve_result == call_api(flow.agent, resp) IN
              IF approve_result.raised
              THEN pc' = "raised" /\ stdout' = stdout
              ELSE IF approve_result.success
              THEN Reply("CREATED_AND_APPROVED")
              ELSE Reply("CREATED")
    /\ UNCHANGED << AGENTS, provider, agent_key, orchestrator_actor_token,
                    agent_actor_token, exchanged_token, flow, n_clients, n_pkce >>

\* BookingAgent.process_request, lines 219-240: the deliveries are listed
\* after the tasks, and the reply holds the listings that succeeded.
ListDeliveries ==
    /\ pc = "list_deliveries"
    /\ \E resp \in ApiResponses :
         /\ requests' = Append(requests,
                api_request(flow.agent, "list_deliveries", flow.request_id, flow.token))
         /\ LET deliveries_result == list_api(resp) IN
              IF deliveries_result.raised
                 \/ (flow.result.success /\ listing_raises(response))
                 \/ (deliveries_result.success /\ listing_raises(resp))
              THEN pc' = "raised" /\ stdout' = stdout
              ELSE IF flow.result.success \/ deliveries_result.success
              THEN Reply("OK")
              ELSE Reply("FAILED")
         /\ response' = resp
    /\ UNCHANGED << AGENTS, provider, agent_key, orchestrator_actor_token,
                    agent_actor_token, exchanged_token, flow, n_clients, n_pkce >>

AgentNext ==
    \/ process_request
    \/ CallApi
    \/ AutoApprove
    \/ ListDeliveries

AgentSpec == AgentInit /\ [][AgentNext]_vars

-----------------------------------------------------------------------------
(* test_agent_app.py: the probe that tries the agents through both         *)
(* applications.  agent_key counts the attempts, flow is the frame of      *)
(* try_agent_via_app, requests holds the requests of the current attempt   *)
(* and stdout the lines printed, one for an attempt that ended.            *)

\* main, lines 43-46: the two applications.
apps ==
    << << ORCHESTRATOR_CLIENT_ID, ORCHESTRATOR_CLIENT_SECRET >>,
       << TOKEN_EXCHANGER_CLIENT_ID, TOKEN_EXCHANGER_CLIENT_SECRET >> >>

\* main, lines 47-53: the agents, the workers first and the orchestrator last.
agents ==
    [ i \in 1..(NumWorkers + 1) |->
        IF i <= NumWorkers THEN << WorkerIds[i], WorkerSecrets[i] >>
        ELSE << ORCHESTRATOR_AGENT_ID, ORCHESTRATOR_AGENT_SECRET >> ]

\* The attempts of lines 55-58 in their order: every agent through every
\* application.
NumAttempts == Len(agents) * Len(apps)

AttemptAgent(n) == agents[((n - 1) \div Len(apps)) + 1]

AttemptApp(n) == apps[((n - 1) % Len(apps)) + 1]

\* cc of line 11.
ProbeChallenges == [ cv \in ProbeVerifiers |-> code_challenge_of(cv) ]

\* The authorize request of lines 15-20.
probe_authorize_request(c, app_id, app_secret, cc) ==
    step1_request(c, app_id, app_secret, << "openid" >>, cc)

\* The authn request of lines 27-33.
probe_authn_request(c, fid, agent_id, agent_secret) ==
    [ BlankRequest EXCEPT
        !.kind = "authn", !.url = AUTHN_URL, !.client = c,
        !.flowId = fid, !.username = agent_id, !.password = agent_secret ]

ProbeInit ==
    /\ AGENTS = [ k \in AgentKeys |->
                    CHOOSE c \in AgentCfgs(k) :
                        Truthy(c.agent_id) /\ Truthy(c.agent_secret)
                        /\ c.scopes = SortedScopeList ]
    /\ pc = "probe_loop"
    /\ agent_key = 0
    /\ orchestrator_actor_token = Unbound
    /\ agent_actor_token = Unbound
    /\ exchanged_token = Unbound
    /\ flow = NoFlow
    /\ response = NoResponse
    /\ requests = <<>>
    /\ stdout = <<>>
    /\ n_clients = 0
    /\ n_pkce = 0
    /\ provider = AnyProvider

\* Lines 55-58 and 10-14: the next pair is taken, its PKCE pair is generated
\* and its client is opened.
try_agent_via_app ==
    /\ pc = "probe_loop"
    /\ agent_key < NumAttempts
    /\ agent_key' = agent_key + 1
    /\ \E cv \in ProbeVerifiers :
         flow' = [ NoFlow EXCEPT
                     !.agent_id = AttemptAgent(agent_key + 1)[1],
                     !.agent_secret = AttemptAgent(agent_key + 1)[2],
                     !.app_client_id = AttemptApp(agent_key + 1)[1],
                     !.app_client_secret = AttemptApp(agent_key + 1)[2],
                     !.label = agent_key + 1,
                     !.code_verifier = cv,
                     !.code_challenge = ProbeChallenges[cv],
                     !.fresh_client = n_clients + 1 ]
    /\ n_clients' = n_clients + 1
    /\ n_pkce' = n_pkce + 1
    /\ requests' = <<>>
    /\ response' = NoResponse
    /\ pc' = "probe_authorize"
    /\ UNCHANGED << AGENTS, provider, orchestrator_actor_token, agent_actor_token,
                    exchanged_token, stdout >>

\* Lines 15-25: the authorize request; r.json() raises on a body that is no
\* JSON, as c.post does on a network error, and nothing catches it.
ProbeAuthorize ==
    /\ pc = "probe_authorize"
    /\ \E resp \in AuthorizeResponses :
         /\ requests' = Append(requests,
                probe_authorize_request(flow.fresh_client, flow.app_client_id,
                                        flow.app_client_secret, flow.code_challenge))
         /\ response' = resp
         /\ IF resp.type # "json"
            THEN /\ pc' = "crashed"
                 /\ UNCHANGED << flow, stdout >>
            ELSE IF ~Truthy(resp.flowId)
            THEN /\ stdout' = Append(stdout, [tag |-> "STEP1_FAILED", agent |-> agent_key])
                 /\ pc' = "probe_loop"
                 /\ flow' = flow
            ELSE /\ flow' = [flow EXCEPT !.flow_id = resp.flowId]
                 /\ pc' = "probe_authn"
                 /\ stdout' = stdout
    /\ UNCHANGED << AGENTS, provider, agent_key, orchestrator_actor_token,
                    agent_actor_token, exchanged_token, n_clients, n_pkce >>

\* Lines 27-40: the authn request and the line that reports the attempt.
ProbeAuthn ==
    /\ pc = "probe_authn"
    /\ \E resp \in AuthnResponses :
         /\ requests' = Append(requests,
                probe_authn_request(flow.fresh_client, flow.flow_id,
                                    flow.agent_id, flow.agent_secret))
         /\ response' = resp
         /\ IF resp.type # "json" \/ code_of(resp) = "raise"
            THEN /\ pc' = "crashed"
                 /\ UNCHANGED << flow, stdout >>
            ELSE /\ flow' = [flow EXCEPT !.code = code_of(resp)]
                 /\ stdout' = Append(stdout,
                        [tag |-> IF Truthy(code_of(resp)) THEN "SUCCESS" ELSE "FAILED",
                         agent |-> agent_key])
                 /\ pc' = "probe_loop"
    /\ UNCHANGED << AGENTS, provider, agent_key, orchestrator_actor_token,
                    agent_actor_token, exchanged_token, n_clients, n_pkce >>

\* Line 60: the loops are over and asyncio.run returns.
ProbeEnd ==
    /\ pc = "probe_loop"
    /\ agent_key = NumAttempts
    /\ pc' = "done"
    /\ UNCHANGED << AGENTS, provider, agent_key, orchestrator_actor_token,
                    agent_actor_token, exchanged_token, flow, response, requests,
                    stdout, n_clients, n_pkce >>

ProbeNext ==
    \/ try_agent_via_app
    \/ ProbeAuthorize
    \/ ProbeAuthn
    \/ ProbeEnd

ProbeSpec == ProbeInit /\ [][ProbeNext]_vars

-----------------------------------------------------------------------------
(* Vocabulary of the properties *)

Range(seq) == { seq[i] : i \in DOMAIN seq }

Sent(kind) == { i \in DOMAIN requests : requests[i].kind = kind }

\* Every value a request transmits: its form or JSON fields, the two halves
\* of its Basic credentials and the pieces of its scope string.
StringsIn(r) ==
    ( { r.grant_type, r.client_id, r.client_secret, r.redirect_uri, r.flowId,
        r.username, r.password, r.code, r.code_verifier, r.subject_token,
        r.actor_token }
      \cup Range(r.basic_auth) \cup Range(r.scope) ) \ {Absent}

\* str.split(" ") of a scope string: the pieces between the separators.
SplitSpace(scope) == SelectSeq(scope, LAMBDA piece : piece # " ")

\* A variable bound to a non-empty string.
HasValue(x) == x \notin {Unbound, None, ""}

InFlow == pc \in {"step1", "step2", "step3", "return"}

\* The lines printed for a worker.
Lines(tag) == { stdout[i].agent : i \in { j \in DOMAIN stdout : stdout[j].tag = tag } }

HasCredentials(k) == Truthy(AGENTS[k].agent_id) /\ Truthy(AGENTS[k].agent_secret)

EmbeddedCode(resp) == IF Truthy(resp.code) THEN resp.code ELSE resp.authDataCode

-----------------------------------------------------------------------------
(* C1 *)

\* C1: when the authorize response of a flow invocation is terminal and embeds
\* a code, the invocation moves straight to step 3 with that code; while its
\* direct code is set no authn request is in the invocation's requests, and
\* the request it sends next is the token request carrying that code.
C1_DirectCodeSkipsStep2 ==
    /\ [][ (pc = "step1" /\ TerminalWithCode(response'))
             => /\ pc' = "step3"
                /\ flow'.direct_code = EmbeddedCode(response')
                /\ flow'.code = EmbeddedCode(response')
                /\ Sent("authn")' = {} ]_vars
    /\ [][ (InFlow /\ HasValue(flow.direct_code) /\ requests' # requests)
             => /\ pc = "step3"
                /\ requests' = Append(requests, requests'[Len(requests')])
                /\ requests'[Len(requests')].kind = "token"
                /\ requests'[Len(requests')].code = flow.direct_code
                /\ Sent("authn")' = {} ]_vars

\* A flow that took the direct path has finished step 3: authorize and token
\* are the only requests it sent.
C1_Witness ==
    /\ pc = "return"
    /\ HasValue(flow.direct_code)
    /\ Len(requests) = 2
    /\ requests[2].kind = "token"
    /\ requests[2].code = flow.direct_code

-----------------------------------------------------------------------------
(* C2 *)

\* C2: every token-exchange request is sent from main's exchange step, with
\* subject_token the orchestrator's actor token, actor_token the token bound
\* for the current worker and scope that worker's configured scopes; the
\* orchestrator's token is only ever bound to the access_token of its phase-1
\* flow, and at the exchange step the worker's token is the access_token that
\* closed a flow run in this iteration with the worker's credentials under the
\* token-exchanger application.
C2_ExchangeArguments ==
    /\ [][ (Sent("exchange")' # {} /\ requests' # requests)
             => /\ pc = "exchange"
                /\ Len(requests') = 1
                /\ requests'[1].subject_token = orchestrator_actor_token
                /\ requests'[1].actor_token = agent_actor_token
                /\ SplitSpace(requests'[1].scope) = AGENTS[agent_key].scopes ]_vars
    /\ [][ orchestrator_actor_token' # orchestrator_actor_token
             => /\ pc = "return" /\ agent_key = 0
                /\ flow.agent_id = ORCHESTRATOR_AGENT_ID
                /\ orchestrator_actor_token = Unbound
                /\ orchestrator_actor_token' = response.access_token ]_vars
    /\ [](pc = "exchange"
            => /\ agent_key \in AgentKeys
               /\ response.type = "json"
               /\ agent_actor_token = response.access_token
               /\ orchestrator_actor_token # Unbound
               /\ Sent("token") # {}
               /\ \A i \in Sent("authn") :
                    /\ requests[i].username = AGENTS[agent_key].agent_id
                    /\ requests[i].password = AGENTS[agent_key].agent_secret
               /\ \A i \in Sent("token") :
                    requests[i].client_id = TOKEN_EXCHANGER_CLIENT_ID)

\* The second worker's exchange has been sent with two different tokens.
C2_Witness ==
    /\ agent_key = NumWorkers
    /\ Sent("exchange") # {}
    /\ HasValue(requests[1].subject_token)
    /\ HasValue(requests[1].actor_token)
    /\ requests[1].subject_token # requests[1].actor_token
    /\ requests[1].subject_token = orchestrator_actor_token

-----------------------------------------------------------------------------
(* C3 *)

IdentityProviderUrls == {AUTHORIZE_URL, AUTHN_URL, TOKEN_URL}

\* C3: every request of a run goes to an endpoint of the identity provider,
\* and a request that transmits the orchestrator's actor token is the
\* token-exchange request to the token endpoint with that token as
\* subject_token.
C3_OrchestratorTokenOnlyAsSubject ==
    \A i \in DOMAIN requests :
        /\ requests[i].url \in IdentityProviderUrls
        /\ (orchestrator_actor_token # Unbound
              /\ orchestrator_actor_token \in StringsIn(requests[i]))
             => /\ requests[i].kind = "exchange"
                /\ requests[i].url = TOKEN_URL
                /\ requests[i].subject_token = orchestrator_actor_token

\* An exchange carrying a real orchestrator token as subject has been sent.
C3_Witness ==
    /\ Sent("exchange") # {}
    /\ HasValue(orchestrator_actor_token)
    /\ requests[1].subject_token = orchestrator_actor_token
    /\ requests[1].actor_token # orchestrator_actor_token

-----------------------------------------------------------------------------
(* C4 *)

\* C4: the scopes named in a worker's token-exchange request are all among
\* the scopes configured for that worker.
C4_RequestedScopesWithinConfigured ==
    \A i \in Sent("exchange") :
        Range(SplitSpace(requests[i].scope)) \subseteq Range(AGENTS[agent_key].scopes)

\* An exchange naming two scopes has been sent.
C4_Witness ==
    /\ Sent("exchange") # {}
    /\ Cardinality(Range(SplitSpace(requests[1].scope))) = 2

-----------------------------------------------------------------------------
(* C5 *)

\* Scope names in the order Python's sorted() gives them.
ScopeOrder == <<"hr:read", "hr:write", "it:read", "it:write">>

ScopeRank(name) == CHOOSE i \in DOMAIN ScopeOrder : ScopeOrder[i] = name

RECURSIVE InsertSorted(_, _)
InsertSorted(name, sorted) ==
    IF Len(sorted) = 0 THEN << name >>
    ELSE IF ScopeRank(name) <= ScopeRank(Head(sorted)) THEN << name >> \o sorted
    ELSE << Head(sorted) >> \o InsertSorted(name, Tail(sorted))

RECURSIVE SortedScopes(_)
\* sorted(scopes)
SortedScopes(scopes) ==
    IF Len(scopes) = 0 THEN <<>>
    ELSE InsertSorted(Head(scopes), SortedScopes(Tail(scopes)))

\* C5: the scope string of a worker's token-exchange request is the worker's
\* configured scopes in sorted order, separated by single spaces.
C5_ScopeStringIsSortedJoin ==
    \A i \in Sent("exchange") :
        /\ SplitSpace(requests[i].scope) = SortedScopes(AGENTS[agent_key].scopes)
        /\ Len(requests[i].scope) = 2 * Len(AGENTS[agent_key].scopes) - 1

-----------------------------------------------------------------------------
(* C6 *)

\* C6: a failure in a worker's flow or exchange never ends the run: the run
\* is aborted only in phase 1, after any worker's [ERROR] line main is back
\* at the head of the loop where its next step is enabled, every worker
\* visited that has credentials had its own flow started, and the summary is
\* reached only after all workers were visited.
C6_WorkerFailureIsolated ==
    /\ pc = "aborted" => (agent_key = 0 /\ Lines("ERROR") = {})
    /\ (Len(stdout) > 0 /\ stdout[Len(stdout)].tag = "ERROR")
         => (pc = "loop" /\ stdout[Len(stdout)].agent = agent_key)
    /\ pc = "loop" => ENABLED (MainNextAgent \/ MainSummary)
    /\ \A k \in AgentKeys : (k <= agent_key /\ HasCredentials(k)) => k \in Lines("FLOW")
    /\ pc = "done" => agent_key = NumWorkers

\* The first worker failed and the last worker's exchange succeeded.
C6_Witness ==
    /\ pc = "done"
    /\ 1 \in Lines("ERROR")
    /\ NumWorkers \in Lines("EXCHANGED_TOKEN")
    /\ NumWorkers \in Lines("FLOW")

-----------------------------------------------------------------------------
(* C7 *)

\* What the run holds about the workers when it ends: the closing summary.
ReportedSuccesses == SummaryExchangedTokens

ReportedFailures == AgentKeys \ SummaryExchangedTokens

\* C7: at the end of a run in which exactly one worker failed and all the
\* others obtained their exchanged token, the report of the run shows one
\* failure and NumWorkers - 1 successes.
C7_ReportShowsOneFailure ==
    ( /\ pc = "done"
      /\ Cardinality(Lines("ERROR")) = 1
      /\ Cardinality(Lines("EXCHANGED_TOKEN")) = NumWorkers - 1 )
    => /\ Cardinality(ReportedFailures) = 1
       /\ Cardinality(ReportedSuccesses) = NumWorkers - 1

-----------------------------------------------------------------------------
(* C8 *)

\* C8: when the orchestrator's flow fails the run is over: no step is enabled,
\* the only flow ever started is the orchestrator's and no exchange was sent;
\* main is in the worker loop, or past it, only with the orchestrator's token
\* bound and no [FATAL] line printed.
C8_OrchestratorFailureEndsRun ==
    /\ pc = "aborted"
         => /\ ~ ENABLED Next
            /\ agent_key = 0
            /\ orchestrator_actor_token = Unbound
            /\ Lines("FLOW") = {0}
            /\ n_pkce = 1
            /\ Sent("exchange") = {}
    /\ Lines("FATAL") # {} => pc = "aborted"
    /\ (agent_key > 0 \/ pc \in {"loop", "exchange", "done"})
         => orchestrator_actor_token # Unbound

\* The orchestrator's flow failed at its third step.
C8_Witness ==
    /\ pc = "aborted"
    /\ Len(requests) = 3
    /\ requests[3].kind = "token"

-----------------------------------------------------------------------------
(* C9 *)

\* C9: a PKCE verifier is transmitted only as the code_verifier of a token
\* request; the authorize request is the first request of an invocation and
\* carries the invocation's challenge; the verifier of the token request is
\* the one the challenge of the authorize request of the same invocation was
\* derived from; and generate_pkce has been called once per invocation.
C9_VerifierOnlyInStep3 ==
    /\ \A i \in DOMAIN requests : \A v \in Verifiers :
         v \in StringsIn(requests[i])
           => /\ requests[i].kind = "token"
              /\ requests[i].code_verifier = v
              /\ v \notin StringsIn([requests[i] EXCEPT !.code_verifier = Absent])
    /\ \A i \in DOMAIN requests :
         IF requests[i].kind = "authorize"
         THEN i = 1 /\ requests[i].code_challenge \in Range(PkceTable)
         ELSE requests[i].code_challenge = <<>>
    /\ \A i \in Sent("token") :
         /\ requests[i].code_verifier \in Verifiers
         /\ requests[1].kind = "authorize"
         /\ requests[1].code_challenge = PkceTable[requests[i].code_verifier]
    /\ InFlow => /\ flow.code_verifier \in Verifiers
                 /\ flow.code_challenge = PkceTable[flow.code_verifier]
                 /\ \A i \in Sent("authorize") :
                      requests[i].code_challenge = flow.code_challenge
    /\ n_pkce = Cardinality(Lines("FLOW"))

\* The last worker's flow has sent its three requests.
C9_Witness ==
    /\ pc = "return"
    /\ agent_key = NumWorkers
    /\ Len(requests) = 3
    /\ requests[3].code_verifier = flow.code_verifier
    /\ n_pkce = NumWorkers + 1

-----------------------------------------------------------------------------
(* C10 *)

\* C10: the pair generate_pkce returned to a flow has a challenge written in
\* the URL-safe alphabet without any "=", which decodes to the SHA-256 digest
\* of the verifier, and it is the value derived again from the verifier.
C10_ChallengeIsS256OfVerifier ==
    pc = "step1"
      => /\ flow.code_verifier \in Verifiers
         /\ Range(flow.code_challenge) \subseteq Range(UrlSafeAlphabet)
         /\ Len(flow.code_challenge) = 43
         /\ Base64UrlDecode(flow.code_challenge) = sha256_digest(flow.code_verifier)
         /\ flow.code_challenge = generate_pkce(flow.code_verifier).code_challenge

\* A worker's flow holds a pair whose challenge uses the characters "-" and "_".
C10_Witness ==
    /\ pc = "step1"
    /\ agent_key > 0
    /\ {"-", "_"} \subseteq Range(flow.code_challenge)

-----------------------------------------------------------------------------
(* C11 *)

\* The provider reports an error status: the HTTP status of the response is
\* not 200.
ErrorStatus(resp) == resp.type = "json" /\ resp.status # 200

\* C11: whenever the response to the authorize, the authn or the token
\* request of a flow has an error status, the flow raises: its frame is
\* left, no actor token is returned and main's handler prints a [FATAL] or
\* an [ERROR] line.
C11_ErrorStatusFailsFlow ==
    [][ (pc \in {"step1", "step2", "step3"} /\ ErrorStatus(response'))
          => /\ flow' = NoFlow
             /\ pc' \in {"aborted", "loop"}
             /\ Len(stdout') = Len(stdout) + 1
             /\ stdout'[Len(stdout')].tag \in {"FATAL", "ERROR"} ]_vars

-----------------------------------------------------------------------------
(* C12 *)

\* A JSON body with no flowId and no code, at top level or under authData.
NeitherFlowIdNorCode(resp) ==
    /\ resp.type = "json"
    /\ ~Truthy(resp.flowId)
    /\ ~Truthy(resp.code)
    /\ ~(resp.authData = "object" /\ Truthy(resp.authDataCode))

\* The flow has just raised to main's handler.
FlowFailed ==
    /\ flow' = NoFlow
    /\ pc' = IF agent_key = 0 THEN "aborted" ELSE "loop"
    /\ stdout' = Append(stdout, [tag |-> IF agent_key = 0 THEN "FATAL" ELSE "ERROR",
                                 agent |-> agent_key])
    /\ orchestrator_actor_token' = orchestrator_actor_token
    /\ agent_actor_token' = agent_actor_token

\* C12: when the authorize response of a flow has neither a flowId nor a
\* code, the flow raises to main's handler, no token is bound, and the
\* authorize request is the only request the invocation has sent: neither
\* the authn nor the token request follows.
C12_NoFlowIdNoCodeIsFatal ==
    [][ (pc = "step1" /\ NeitherFlowIdNorCode(response'))
          => /\ FlowFailed
             /\ Len(requests') = 1
             /\ requests'[1].kind = "authorize" ]_vars

\* A worker's flow ended at step 1 on a terminal response without a code.
C12_Witness ==
    /\ pc = "loop"
    /\ agent_key > 0
    /\ NeitherFlowIdNorCode(response)
    /\ response.flowStatus = "SUCCESS_COMPLETED"
    /\ Len(requests) = 1
    /\ requests[1].kind = "authorize"
    /\ stdout[Len(stdout)] = [tag |-> "ERROR", agent |-> agent_key]

-----------------------------------------------------------------------------
(* C13 *)

\* A JSON body with no code, at top level or under authData.
NoCode(resp) ==
    /\ resp.type = "json"
    /\ ~Truthy(resp.code)
    /\ ~(resp.authData = "object" /\ Truthy(resp.authDataCode))

\* C13: when the authn response of a flow has no code, the flow raises to
\* main's handler, no token is bound, and the requests of the invocation are
\* the authorize and the authn request: the token request is not sent.
C13_NoCodeAfterAuthnIsFatal ==
    [][ (pc = "step2" /\ NoCode(response'))
          => /\ FlowFailed
             /\ Len(requests') = 2
             /\ requests'[1].kind = "authorize"
             /\ requests'[2].kind = "authn" ]_vars

\* The orchestrator's flow ended at step 2 on a response whose authData holds
\* no code.
C13_Witness ==
    /\ pc = "aborted"
    /\ NoCode(response)
    /\ response.authData = "object"
    /\ Len(requests) = 2
    /\ requests[2].kind = "authn"
    /\ stdout[Len(stdout)] = [tag |-> "FATAL", agent |-> 0]

-----------------------------------------------------------------------------
(* C14 *)

\* A JSON body of the token endpoint without an access_token.
NoAccessToken(resp) == resp.type = "json" /\ resp.access_token = None

\* C14: when the token response of step 3 has an error status or no
\* access_token the flow raises to main's handler, and the token a flow
\* hands to its return is never empty and never null.
C14_Step3FailureReturnsNoToken ==
    [][ pc = "step3"
          => /\ (ErrorStatus(response') \/ NoAccessToken(response')) => FlowFailed
             /\ pc' = "return" => HasValue(flow'.actor_token) ]_vars

-----------------------------------------------------------------------------
(* C15 *)

\* C15: when the response to the token exchange has an error status or no
\* access_token, token_exchange_downscope raises (main prints the worker's
\* [ERROR] line and binds no exchanged token), and the token it returns is
\* never empty and never null.
C15_ExchangeFailureReturnsNoToken ==
    [][ pc = "exchange"
          => /\ (ErrorStatus(response') \/ NoAccessToken(response'))
                  => /\ exchanged_token' = Unbound
                     /\ stdout' = Append(stdout, [tag |-> "ERROR", agent |-> agent_key])
             /\ exchanged_token' # Unbound => HasValue(exchanged_token') ]_vars

-----------------------------------------------------------------------------
(* C16 *)

\* C16: against the provider that redeems a code once, when an earlier call
\* of step3_exchange_code_for_token returned a token, every later call with
\* the same code and verifier sends the same request, raises and yields no
\* token.
C16_ReplayOfRedeemedCodeFails ==
    [][ ( /\ pc = "test_step3"
          /\ \E i \in DOMAIN stdout : stdout[i].tag = "RETURNED" )
          => /\ Len(requests') = Len(requests) + 1
             /\ \E i \in DOMAIN stdout :
                  /\ stdout[i].tag = "RETURNED"
                  /\ requests'[Len(requests')].code = requests[i].code
                  /\ requests'[Len(requests')].code_verifier = requests[i].code_verifier
             /\ stdout'[Len(stdout')].tag = "RAISED"
             /\ flow'.actor_token = Unbound ]_vars

\* The first call returned a token and the second call, the same request, was
\* answered with an error status and raised.
C16_Witness ==
    /\ pc = "test_step3"
    /\ Len(requests) = 2
    /\ requests[1] = requests[2]
    /\ stdout[1].tag = "RETURNED"
    /\ stdout[2].tag = "RAISED"
    /\ response.status = 400
    /\ response.access_token \in AccessTokens
    /\ flow.actor_token = Unbound

-----------------------------------------------------------------------------
(* C17 *)

\* The requests of a flow invocation among the requests held.
FlowRequests == Sent("authorize") \cup Sent("authn") \cup Sent("token")

-----------------------------------------------------------------------------
(* C18 *)

\* The agent the running or latest flow was invoked for.
InvokedAgentId == IF agent_key = 0 THEN ORCHESTRATOR_AGENT_ID ELSE AGENTS[agent_key].agent_id

InvokedAgentSecret ==
    IF agent_key = 0 THEN ORCHESTRATOR_AGENT_SECRET ELSE AGENTS[agent_key].agent_secret

\* C18: against the provider that short-circuits step 1 only on an
\* authenticated session, whenever a flow has obtained a token (it is about
\* to return it, or main has just bound it), the flow sent an authn request
\* with the id and the secret of the agent it was invoked for, before its
\* token request and on the same client; and no flow took the direct code.
C18_TokenFromOwnAuthentication ==
    /\ (pc \in {"return", "exchange"} \/ (pc = "loop" /\ agent_key = 0))
         => \E i \in Sent("authn"), j \in Sent("token") :
              /\ i < j
              /\ requests[i].username = InvokedAgentId
              /\ requests[i].password = InvokedAgentSecret
              /\ requests[i].client = requests[j].client
    /\ InFlow => ~HasValue(flow.direct_code)

\* The second worker's token is bound in main while the sessions of the
\* orchestrator and of the first worker are authenticated at the provider.
C18_Witness ==
    /\ pc = "exchange"
    /\ agent_key = 2
    /\ HasValue(agent_actor_token)
    /\ provider.sessions = {2, 3, 4}
    /\ requests[2].username = AGENTS[2].agent_id

-----------------------------------------------------------------------------
(* C19 *)

\* The second segment of a token, padded as decode_jwt_payload pads it.
PaddedPayload(token) ==
    LET payload == split(TokenText(token), ".")[2] IN
    payload \o PadChars(4 - (Len(payload) % 4))

\* A token that is malformed: fewer than two segments, a second segment that
\* is not base64, or one that does not decode to a JSON text.
Malformed(token) ==
    \/ Len(split(TokenText(token), ".")) < 2
    \/ urlsafe_b64decode(PaddedPayload(token)).raised
    \/ json_loads(urlsafe_b64decode(PaddedPayload(token)).bytes).type = "raise"

\* C19: what decode_jwt_payload returns for the token a flow is about to
\* print is a mapping, and the empty mapping when the token is malformed.
C19_DecodeReturnsMapping ==
    pc = "return"
      => /\ decode_jwt_payload(flow.actor_token).type = "dict"
         /\ Malformed(flow.actor_token)
              => decode_jwt_payload(flow.actor_token) = EmptyDict

-----------------------------------------------------------------------------
(* C20 *)

\* A success response of the token endpoint that holds an access token.
SuccessWithToken(resp) ==
    resp.type = "json" /\ resp.status = 200 /\ Truthy(resp.access_token)

\* C20: the token of a success response is returned whatever it holds: a
\* flow that received it in step 3 hands it to main, which binds it and
\* prints no [FATAL] or [ERROR] line, and an exchange that received it binds
\* it as the worker's exchanged token.
C20_DecodingNeverFailsAFlow ==
    [][ /\ (pc = "return" /\ SuccessWithToken(response))
             => /\ stdout' = stdout
                /\ IF agent_key = 0
                   THEN orchestrator_actor_token' = response.access_token
                   ELSE agent_actor_token' = response.access_token
        /\ (pc = "exchange" /\ SuccessWithToken(response'))
             => /\ exchanged_token' = response'.access_token
                /\ stdout'[Len(stdout')].tag = "EXCHANGED_TOKEN" ]_vars

-----------------------------------------------------------------------------
(* C21 *)

\* The step that received the response held raised on it.
LastStepRaised ==
    /\ requests # << >>
    /\ LET kind == requests[Len(requests)].kind IN
         \/ kind = "authorize" /\ step1_get_flow_id(response).raised
         \/ kind = "authn" /\ step2_authenticate_agent(response).raised
         \/ kind = "token" /\ step3_exchange_code_for_token(response).raised

\* C21: the requests of one invocation hold at most one authorize, one authn
\* and one token request, in this order, so a code is submitted once; an
\* invocation is still running (and can send its next request) only when
\* its latest step did not fail, and an invocation whose step failed has
\* been left with that step's request as its last one.
C21_SinglePassNoRetries ==
    /\ \A kind \in {"authorize", "authn", "token"} : Cardinality(Sent(kind)) <= 1
    /\ \A i, j \in FlowRequests :
         (i < j) => \/ requests[i].kind = "authorize"
                    \/ requests[i].kind = "authn" /\ requests[j].kind = "token"
    /\ InFlow => /\ ~LastStepRaised
                 /\ pc = "step1" <=> requests = << >>
                 /\ pc = "step2" => Len(requests) = 1
                 /\ pc = "return" <=> Sent("token") # {}
    /\ (FlowRequests # {} /\ LastStepRaised) => ~InFlow

\* The orchestrator's flow failed at step 2 after two requests; nothing
\* followed.
C21_Witness ==
    /\ pc = "aborted"
    /\ LastStepRaised
    /\ Len(requests) = 2
    /\ requests[2].kind = "authn"
    /\ ~ ENABLED Next

-----------------------------------------------------------------------------
(* C22 *)

\* The scopes a token grants: the names in its scope claim, none when its
\* payload holds no scope claim.
GrantedScopes(token) ==
    UNION { Range(SplitSpace(pair[2])) :
              pair \in { q \in decode_jwt_payload(token).content : q[1] = "scope" } }

\* C22: the token bound as the exchanged token of a worker grants no scope
\* beyond those named in the scope string of the exchange request that
\* produced it.
C22_GrantedScopeWithinRequested ==
    exchanged_token # Unbound
      => /\ Len(requests) = 1
         /\ requests[1].kind = "exchange"
         /\ GrantedScopes(exchanged_token) \subseteq Range(SplitSpace(requests[1].scope))

-----------------------------------------------------------------------------
(* C23 *)

\* C23: whenever the response to the token exchange is a success with an
\* access token, also one that grants fewer scopes than were requested,
\* token_exchange_downscope returns that token without an error, and the
\* exchange sent one request, whose scope string is the join of the
\* worker's configured scopes.
C23_NarrowerGrantAccepted ==
    [][ (pc = "exchange" /\ SuccessWithToken(response'))
          => /\ exchanged_token' = response'.access_token
             /\ stdout' = Append(stdout, [tag |-> "EXCHANGED_TOKEN", agent |-> agent_key])
             /\ Len(requests') = 1
             /\ requests'[1].kind = "exchange"
             /\ requests'[1].scope = join_space(AGENTS[agent_key].scopes) ]_vars

-----------------------------------------------------------------------------
(* C24 *)

\* C24: when a flow went through step 1 (a flowId), step 2 (a code) and
\* step 3, and the token response is a success with an access_token, the
\* flow returns to main, without an error, exactly that access_token.
C24_ActorTokenIsResponseToken ==
    [][ ( /\ pc = "return"
          /\ Len(requests) = 3
          /\ requests[2].kind = "authn"
          /\ SuccessWithToken(response) )
          => /\ stdout' = stdout
             /\ pc' = IF agent_key = 0 THEN "loop" ELSE "exchange"
             /\ IF agent_key = 0
                THEN orchestrator_actor_token' = response.access_token
                ELSE agent_actor_token' = response.access_token ]_vars

-----------------------------------------------------------------------------
(* C25 *)

\* C25: whatever the subject token, the actor token and the scope list,
\* when the response to the token exchange has status 200 and an
\* access_token, token_exchange_downscope returns exactly that access_token,
\* and the request it sent carried the subject and the actor token it was
\* given.
C25_DelegatedTokenIsResponseToken ==
    [][ ( /\ pc = "exchange"
          /\ response'.type = "json"
          /\ response'.status = 200
          /\ response'.access_token # None )
          => /\ exchanged_token' = response'.access_token
             /\ requests'[1].subject_token = orchestrator_actor_token
             /\ requests'[1].actor_token = agent_actor_token ]_vars

-----------------------------------------------------------------------------
(* C26 *)

\* C26: once step 1 of a flow has returned, the flow holds either a flowId
\* and no direct code, or a direct code and no flowId.
C26_ExactlyOneOfFlowIdAndCode ==
    (InFlow /\ pc # "step1")
      => \/ Truthy(flow.flow_id) /\ flow.direct_code = None
         \/ flow.flow_id = None /\ Truthy(flow.direct_code)

\* Step 1 returned on a terminal response that holds a flowId and a code:
\* the flow holds the code only.
C26_Witness ==
    /\ pc = "step3"
    /\ Len(requests) = 1
    /\ TerminalWithCode(response)
    /\ Truthy(response.flowId)
    /\ flow.flow_id = None
    /\ flow.direct_code = EmbeddedCode(response)

-----------------------------------------------------------------------------
(* C27 *)

\* The positions of the [FLOW] lines printed for an agent.
FlowLines(agent) ==
    { i \in DOMAIN stdout : stdout[i].tag = "FLOW" /\ stdout[i].agent = agent }

\* C27: the orchestrator's flow is started exactly once, as the first thing
\* main does and before every worker's flow; once orchestrator_actor_token
\* is bound no step changes it; and every exchange request carries it as
\* its subject_token.
C27_OrchestratorTokenProducedOnce ==
    /\ [] /\ pc # "phase1" => (FlowLines(0) = {1})
          /\ \A k \in AgentKeys : \A i \in FlowLines(k) : i > 1
          /\ agent_key > 0 => orchestrator_actor_token # Unbound
          /\ \A i \in Sent("exchange") :
               requests[i].subject_token = orchestrator_actor_token
    /\ [][ orchestrator_actor_token # Unbound
             => orchestrator_actor_token' = orchestrator_actor_token ]_vars

\* The last worker's exchange was sent with the orchestrator's token as
\* subject after the first worker's flow and exchange had failed or succeeded.
C27_Witness ==
    /\ pc = "done"
    /\ Lines("FLOW") = 0..NumWorkers
    /\ Sent("exchange") = {1}
    /\ HasValue(orchestrator_actor_token)
    /\ requests[1].subject_token = orchestrator_actor_token
    /\ requests[1].actor_token # orchestrator_actor_token

-----------------------------------------------------------------------------
(* C28 *)

\* C28: an authn request is the second request of its invocation, after the
\* authorize request, and carries the flowId the authorize response
\* delivered; a token request follows the authorize request and carries the
\* code delivered by the response to the request before it (the authorize
\* response on the direct path, the authn response otherwise).  Step 2 is
\* reached only with a flowId from the authorize response and step 3 only
\* with a code from the latest response.
C28_StepsOrderedByDataDependency ==
    /\ \A i \in Sent("authn") :
         /\ i = 2
         /\ requests[1].kind = "authorize"
         /\ HasValue(requests[i].flowId)
         /\ requests[i].flowId \in FlowIds
    /\ \A i \in Sent("token") :
         /\ i > 1
         /\ requests[1].kind = "authorize"
         /\ requests[i - 1].kind \in {"authorize", "authn"}
         /\ requests[i].code \in TopLevelCodes \cup AuthDataCodes
    /\ pc = "step2"
         => /\ response.type = "json"
            /\ Truthy(response.flowId)
            /\ flow.flow_id = response.flowId
    /\ pc = "step3"
         => /\ IssuesCode(response)
            /\ flow.code = EmbeddedCode(response)
            /\ Len(requests) = 1 => TerminalWithCode(response)
    /\ InFlow
         => /\ \A i \in Sent("authn") : requests[i].flowId = flow.flow_id
            /\ \A i \in Sent("token") : requests[i].code = flow.code

\* A worker's flow has sent the token request with the code that the authn
\* response held under authData.
C28_Witness ==
    /\ pc = "return"
    /\ agent_key > 0
    /\ Len(requests) = 3
    /\ requests[2].flowId = flow.flow_id
    /\ requests[3].code = flow.code
    /\ flow.code \in AuthDataCodes

-----------------------------------------------------------------------------
(* C29 *)

\* The application the flow of the current agent is to run under: the
\* Orchestrator application in phase 1, the Token Exchanger application in
\* the loop.
PairedApplication ==
    IF agent_key = 0
    THEN << ORCHESTRATOR_CLIENT_ID, ORCHESTRATOR_CLIENT_SECRET >>
    ELSE << TOKEN_EXCHANGER_CLIENT_ID, TOKEN_EXCHANGER_CLIENT_SECRET >>

\* C29: the authorize request and the token request of one invocation carry
\* the credentials of one application, the Orchestrator application in the
\* orchestrator's flow and the Token Exchanger application in every worker's
\* flow; every token-exchange request carries the Token Exchanger
\* application's credentials.
C29_OneApplicationPerFlow ==
    /\ \A i \in Sent("authorize") :
         /\ requests[i].basic_auth = PairedApplication
         /\ requests[i].client_id = PairedApplication[1]
    /\ \A i \in Sent("token") :
         /\ << requests[i].client_id, requests[i].client_secret >> = PairedApplication
         /\ << requests[i].client_id, requests[i].client_secret >> = requests[1].basic_auth
    /\ \A i \in Sent("exchange") :
         requests[i].basic_auth
           = << TOKEN_EXCHANGER_CLIENT_ID, TOKEN_EXCHANGER_CLIENT_SECRET >>
    /\ InFlow => << flow.app_client_id, flow.app_client_secret >> = PairedApplication

\* A worker's flow has sent its authorize and its token request as the Token
\* Exchanger application.
C29_Witness ==
    /\ pc = "return"
    /\ agent_key > 0
    /\ requests[1].basic_auth
         = << TOKEN_EXCHANGER_CLIENT_ID, TOKEN_EXCHANGER_CLIENT_SECRET >>
    /\ requests[Len(requests)].kind = "token"
    /\ requests[Len(requests)].client_id = TOKEN_EXCHANGER_CLIENT_ID
    /\ requests[Len(requests)].client_secret = TOKEN_EXCHANGER_CLIENT_SECRET

-----------------------------------------------------------------------------
(* C30 *)

\* The secrets of the agents and the credentials of the applications.
AgentSecrets == {ORCHESTRATOR_AGENT_SECRET} \cup Range(WorkerSecrets)

ApplicationCredentials ==
    { ORCHESTRATOR_CLIENT_ID, ORCHESTRATOR_CLIENT_SECRET,
      TOKEN_EXCHANGER_CLIENT_ID, TOKEN_EXCHANGER_CLIENT_SECRET }

\* C30: a request that transmits an agent's secret is an authn request, of
\* the flow of that agent, with the secret as its password and nowhere else
\* and the agent's id as its username; no authorize, token or exchange
\* request holds an agent's secret, and an authn request holds no
\* application credentials, neither in its body nor as Basic credentials.
C30_AgentSecretOnlyInStep2 ==
    /\ \A i \in DOMAIN requests : \A secret \in AgentSecrets :
         secret \in StringsIn(requests[i])
           => /\ requests[i].kind = "authn"
              /\ requests[i].password = secret
              /\ secret \notin StringsIn([requests[i] EXCEPT !.password = Absent])
              /\ secret = InvokedAgentSecret
              /\ requests[i].username = InvokedAgentId
    /\ \A i \in Sent("authn") :
         /\ requests[i].username = InvokedAgentId
         /\ requests[i].password = InvokedAgentSecret
         /\ requests[i].password \in AgentSecrets
         /\ requests[i].basic_auth = << >>
         /\ StringsIn(requests[i]) \cap ApplicationCredentials = {}

\* The last worker's flow has sent its authn request with the worker's id and
\* secret, and then its token request.
C30_Witness ==
    /\ pc = "return"
    /\ agent_key = NumWorkers
    /\ Len(requests) = 3
    /\ requests[2].password = WorkerSecrets[NumWorkers]
    /\ requests[2].username = WorkerIds[NumWorkers]
    /\ WorkerSecrets[NumWorkers] \notin StringsIn(requests[3])

-----------------------------------------------------------------------------
(* C31 *)

\* C31: step 1 decides on the JSON body of the authorize response alone: a
\* terminal response that holds a code, at top level or under authData, gives
\* the direct code (the top-level one first) and no flowId; any other
\* response with a flowId gives the flowId and no code, also when it holds a
\* code with another flowStatus; any other response without a flowId fails
\* the flow.
C31_Step1DecisionTable ==
    [][ (pc = "step1" /\ response'.type = "json")
          => /\ TerminalWithCode(response')
                  => /\ pc' = "step3"
                     /\ flow'.direct_code = EmbeddedCode(response')
                     /\ flow'.code = EmbeddedCode(response')
                     /\ flow'.flow_id = None
             /\ (~TerminalWithCode(response') /\ Truthy(response'.flowId))
                  => /\ pc' = "step2"
                     /\ flow'.flow_id = response'.flowId
                     /\ flow'.direct_code = None
             /\ (~TerminalWithCode(response') /\ ~Truthy(response'.flowId))
                  => FlowFailed ]_vars

-----------------------------------------------------------------------------
(* C32 *)

\* A token-exchange request has just been sent.
ExchangeSent ==
    /\ requests' # requests
    /\ \E i \in DOMAIN requests' : requests'[i].kind = "exchange"

\* The flow of the current worker has just ended without returning.
WorkerFlowFailed ==
    /\ agent_key > 0
    /\ InFlow
    /\ flow' = NoFlow
    /\ agent_actor_token' = Unbound

\* C32: a token-exchange request is sent only for a worker whose own flow
\* has returned an actor token in the current iteration, and it carries that
\* token; the worker's actor token is bound by the return of the worker's
\* own flow and by nothing else; when the flow of a worker fails, main goes
\* on to the next worker and no token-exchange request is sent for the
\* failed one.
C32_ExchangeOnlyAfterOwnFlow ==
    /\ [](/\ pc = "exchange" => (agent_key > 0 /\ HasValue(agent_actor_token))
          /\ (agent_key > 0 /\ agent_actor_token = Unbound) => Sent("exchange") = {}
          /\ Sent("exchange") # {}
               => /\ agent_key > 0
                  /\ HasValue(agent_actor_token)
                  /\ requests[1].actor_token = agent_actor_token)
    /\ [][ /\ ExchangeSent
             => /\ pc = "exchange"
                /\ HasValue(agent_actor_token)
                /\ requests' = << exchange_request(MainClient, orchestrator_actor_token,
                                                   agent_actor_token,
                                                   AGENTS[agent_key].scopes) >>
           /\ (agent_actor_token' # agent_actor_token /\ HasValue(agent_actor_token'))
             => /\ pc = "return"
                /\ agent_key > 0
                /\ flow.label = agent_key
                /\ flow.agent_id = AGENTS[agent_key].agent_id
                /\ agent_actor_token' = flow.actor_token
                /\ pc' = "exchange"
           /\ WorkerFlowFailed
             => /\ pc' = "loop"
                /\ \A i \in DOMAIN requests' : requests'[i].kind # "exchange" ]_vars

-----------------------------------------------------------------------------
(* C33 *)

\* C33: a worker whose agent_id or agent_secret is missing is skipped when
\* the loop reaches it: a SKIP line is printed and nothing else for it, no
\* flow starts (no client is opened, no PKCE pair is generated), no request
\* is sent while it is the current worker, the run does not stop on it, and
\* the loop goes on to the next worker or to the summary.
C33_MissingCredentialsSkipped ==
    /\ \A k \in AgentKeys :
         ~HasCredentials(k)
           => /\ k \in Lines("SKIP") <=> k <= agent_key
              /\ k \notin Lines("FLOW") \cup Lines("ERROR") \cup Lines("EXCHANGED_TOKEN")
              /\ agent_key = k
                   => /\ requests = << >>
                      /\ pc = IF k = NumWorkers /\ stdout[Len(stdout)].tag = "SUMMARY"
                              THEN "done" ELSE "loop"
                      /\ pc = "loop" => ENABLED (MainNextAgent \/ MainSummary)
    /\ \A k \in AgentKeys : k \in Lines("SKIP") => ~HasCredentials(k)
    /\ \A k \in AgentKeys : (k <= agent_key /\ HasCredentials(k)) => k \in Lines("FLOW")
    /\ n_clients = MainClient + Cardinality(Lines("FLOW"))
    /\ n_pkce = Cardinality(Lines("FLOW"))
    /\ pc = "done" => agent_key = NumWorkers

\* The first worker was skipped and the run went on: the last worker's flow
\* and exchange took place and the summary was reached.
C33_Witness ==
    /\ pc = "done"
    /\ ~HasCredentials(1)
    /\ 1 \in Lines("SKIP")
    /\ NumWorkers \in Lines("FLOW")
    /\ NumWorkers \in Lines("EXCHANGED_TOKEN")

-----------------------------------------------------------------------------
(* C34 *)

\* How many lines with the tag were printed for the agent.
Occurrences(tag, k) ==
    Cardinality({ i \in DOMAIN stdout : stdout[i].tag = tag /\ stdout[i].agent = k })

Terminated == pc \in {"done", "aborted"}

\* C34: a run in which every network call returns or fails ends, at the
\* summary or, when the orchestrator's flow failed, before the loop.  Every
\* agent has at most one flow, a flow sends at most three requests (one of
\* each kind), a worker's iteration sends at most one token-exchange request
\* after its flow, none is sent for the orchestrator, and every step sends
\* one request at most.
C34_RunTerminates ==
    /\ [](/\ \A k \in AgentKeys \cup {0} : Occurrences("FLOW", k) <= 1
          /\ \A k \in AgentKeys :
               Occurrences("ERROR", k) + Occurrences("EXCHANGED_TOKEN", k) <= 1
          /\ Len(requests) <= 3
          /\ \A kind \in {"authorize", "authn", "token", "exchange"} :
               Cardinality(Sent(kind)) <= 1
          /\ Sent("exchange") # {} => (Len(requests) = 1 /\ agent_key > 0)
          /\ n_clients <= MainClient + 1 + NumWorkers
          /\ pc = "done" => (agent_key = NumWorkers /\ stdout[Len(stdout)].tag = "SUMMARY")
          /\ pc = "aborted" => (agent_key = 0 /\ stdout[Len(stdout)].tag = "FATAL")
          /\ Terminated => ~ ENABLED Next)
    /\ [][ requests' # requests
             => \/ /\ requests' = << >>
                   /\ pc \in {"phase1", "loop"}
                   /\ agent_key' = IF pc = "phase1" THEN 0 ELSE agent_key + 1
                \/ /\ InFlow
                   /\ Len(requests') = Len(requests) + 1
                   /\ SubSeq(requests', 1, Len(requests)) = requests
                   /\ requests'[Len(requests')].kind # "exchange"
                \/ /\ pc = "exchange"
                   /\ Sent("exchange") = {}
                   /\ Len(requests') = 1
                   /\ requests'[1].kind = "exchange"
                   /\ pc' = "loop" ]_vars
    /\ <>Terminated

\* The longest run: every worker had its flow and its exchange, and the
\* summary was reached.
C34_Witness ==
    /\ pc = "done"
    /\ \A k \in AgentKeys : k \in Lines("EXCHANGED_TOKEN")
    /\ Len(stdout) = 2 * NumWorkers + 2
    /\ Len(requests) = 1
    /\ n_clients = MainClient + 1 + NumWorkers

-----------------------------------------------------------------------------
(* C35 *)

\* C35: process_request of the HR, Booking and Approval agents called with
\* no token or with an empty one returns the 'No token provided' message
\* and sends no request; that message is returned in no other case; and
\* every API request of a call carries the token the caller passed, which is
\* not empty, as its Bearer credential.
C35_NoApiCallWithoutToken ==
    /\ ~Truthy(flow.token)
         => /\ requests = << >>
            /\ pc \in {"process_request", "replied"}
            /\ pc = "replied" => stdout = << [tag |-> "NO_TOKEN", agent |-> flow.agent] >>
    /\ \A i \in DOMAIN stdout : stdout[i].tag = "NO_TOKEN" => ~Truthy(flow.token)
    /\ \A i \in DOMAIN requests :
         /\ requests[i].authorization = << "Bearer", flow.token >>
         /\ Truthy(flow.token)
         /\ requests[i].agent = flow.agent

\* The booking agent was asked to list with an empty token: it answered
\* that no token was provided, and sent nothing.
C35_Witness ==
    /\ pc = "replied"
    /\ flow.agent = "booking"
    /\ flow.token = ""
    /\ "list" \in flow.query
    /\ stdout = << [tag |-> "NO_TOKEN", agent |-> "booking"] >>
    /\ requests = << >>

-----------------------------------------------------------------------------
(* C36 *)

\* The call is on the create path of the approval agent and has sent the
\* creation request.
OnCreatePath ==
    /\ flow.agent = "approval"
    /\ requests # << >>
    /\ requests[1].op = "create_approval_request"

\* The API call that got the response did not succeed: it raised or gave a
\* failure result.
ApiCallFailed(resp) ==
    call_api("approval", resp).raised \/ ~call_api("approval", resp).success

\* C36: on the create path the approval agent sends at most one approve
\* request, after a creation that succeeded and returned a request_id, and
\* for that request_id; after a creation that failed it sends none; and
\* when the auto-approval has failed, process_request returns the reply that
\* reports the request as created.
C36_AutoApproveAfterCreate ==
    OnCreatePath
      => /\ Len(requests) <= 2
         /\ Len(requests) = 2
              => /\ requests[2].op = "approve_request"
                 /\ flow.result.success
                 /\ Truthy(flow.result.request_id)
                 /\ requests[2].path = << "/requests/", flow.result.request_id, "/approve" >>
         /\ (Len(requests) = 1 /\ ApiCallFailed(response))
              => pc \in {"replied", "raised"}
         /\ (Len(requests) = 2 /\ ApiCallFailed(response))
              => /\ pc = "replied"
                 /\ stdout = << [tag |-> "CREATED", agent |-> "approval"] >>

-----------------------------------------------------------------------------
(* C37 *)

\* C37: when the probe has ended it has tried every agent through both
\* applications; the attempts come one at a time in the order of the loops,
\* each with a client and a PKCE pair of its own; an attempt sends the
\* authorize request of its application and, only when the authorize
\* response held a flowId, the authn request with that flowId and the
\* agent's credentials; the attempt is reported as a success exactly when
\* the authn response holds a code, at top level or under authData; and no
\* token request is sent.
C37_ProbeTriesEveryPair ==
    /\ pc \notin {"probe_loop", "probe_authorize", "probe_authn"}
         => /\ agent_key = NumAttempts
            /\ Len(stdout) = NumAttempts
            /\ \A n \in 1..NumAttempts : stdout[n].agent = n
    /\ n_clients = agent_key
    /\ n_pkce = agent_key
    /\ Len(requests) <= 2
    /\ \A i \in DOMAIN requests :
         /\ requests[i].kind = IF i = 1 THEN "authorize" ELSE "authn"
         /\ requests[i].client = agent_key
    /\ Sent("authorize") # {}
         => /\ requests[1].basic_auth = AttemptApp(agent_key)
            /\ requests[1].code_challenge = code_challenge_of(flow.code_verifier)
    /\ Sent("authn") # {}
         => /\ Truthy(flow.flow_id)
            /\ requests[2].flowId = flow.flow_id
            /\ << requests[2].username, requests[2].password >> = AttemptAgent(agent_key)
    /\ (pc = "probe_loop" /\ Len(requests) = 2)
         => (stdout[Len(stdout)].tag = "SUCCESS" <=> IssuesCode(response))

====
